---- MODULE Spec2Model ----
(***************************************************************************)
(* Health-Monitor-Vision: the signal-to-alert pipeline.                    *)
(*                                                                         *)
(* The objects owned by HealthMonitor are modelled as records, one         *)
(* variable per object (alert_system, screen_time_tracker, eye_tracker,    *)
(* posture_analyzer).                                                      *)
(* Every method is an operator from the object's record (and the clock     *)
(* readings the method takes) to the record after the call; the actions    *)
(* apply these operators to the variables.                                 *)
(*                                                                         *)
(* Time: time.time() is the variable now, in centiseconds (0.01 s), so     *)
(* that the blink band [0.05 s, 0.5 s] and the second-valued thresholds    *)
(* are all integers.  A method reads the clock once: the microseconds      *)
(* that pass between two time.time() calls inside one method are below     *)
(* the resolution of the model.  The calendar date is the variable date;   *)
(* midnight may pass during an advance of the clock of SpecScreen.         *)
(***************************************************************************)
EXTENDS Integers, Sequences, FiniteSets, TLC

VARIABLES
    now,                  \* time.time(), centiseconds
    date,                 \* calendar date (day number)
    day_start,            \* clock reading at which the current date began
    ticks,                \* number of clock advances so far
    alert_system,         \* HealthMonitor.alert_system : AlertSystem
    screen_time_tracker,  \* HealthMonitor.screen_time_tracker : ScreenTimeTracker
    eye_tracker,          \* HealthMonitor.eye_tracker : EyeTracker
    posture_analyzer,     \* HealthMonitor.posture_analyzer : PostureAnalyzer
    last_call             \* the operation of the last step, its arguments and result

vars ==
    <<now, date, day_start, ticks, alert_system, screen_time_tracker,
      eye_tracker, posture_analyzer, last_call>>

----------------------------------------------------------------------------
(* Units and Optional values                                               *)

Seconds(n) ==
    n * 100

Minutes(n) ==
    n * 6000

\* Optional[T]: None is the empty sequence, a value x is <<x>>.
None ==
    <<>>

Some(x) ==
    <<x>>

\* Python truthiness of an Optional[float]: None and 0.0 are falsy.
Truthy(o) ==
    o # None /\ o[1] # 0

\* collections.deque(maxlen=n).append(x)
DequeAppend(q, x, maxlen) ==
    LET s == Append(q, x)
    IN  IF Len(s) > maxlen THEN SubSeq(s, 2, Len(s)) ELSE s

Range(s) ==
    {s[i] : i \in 1..Len(s)}

----------------------------------------------------------------------------
(* Bounds of the model                                                     *)

\* time.time() at construction; last_alert_times start at 0, so the first
\* alert of every type passes its cooldown, as with a real epoch time.
Epoch ==
    30000

\* alerts created in one behaviour
MaxAlerts ==
    2

\* observers registered with the alert system
MaxCallbacks ==
    2

\* clock advances in one behaviour of the alert specifications
MaxAlertTicks ==
    2

\* last calendar date
MaxDate ==
    1

\* clock advances in one behaviour of the screen-time specifications
MaxScreenTicks ==
    2

\* breaks recorded in one behaviour
MaxBreaks ==
    1

\* frames in one behaviour of the eye-tracker specification
MaxEyeTicks ==
    3

\* frames in one behaviour of the blink-rate specification: enough for one
\* blink more than the blink history holds
MaxBlinkFrames ==
    204

\* the frames of a behaviour of the blink-rate specification before which
\* the user may stop blinking for a while
MaxEarlyFrames ==
    5

\* the frames of a behaviour of the posture specification: enough for the
\* ten samples of a calibration and for 30 s of frames 3 s apart after the
\* first
MaxPostureFrames ==
    11

\* the changes of pose in a behaviour of the posture specification
MaxPoseChanges ==
    1

\* the seconds a behaviour of the posture specification lasts
PostureHorizon ==
    160

\* the frames of a behaviour of the monitor
MaxFrames ==
    3

\* the clock advances and the breaks recorded in a behaviour of the
\* specification of the break tiers
MaxTierTicks ==
    2

MaxTierBreaks ==
    3

\* the ticks of a behaviour of the alert-history specification: one alert
\* more than the alert history holds
MaxHistoryTicks ==
    101

\* the frames of a behaviour of the calibration specification: ten for five
\* blinks, and two for a blink across the end of the window
MaxCalibrationFrames ==
    12

\* the seconds after construction up to which the calibration specification
\* feeds frames
CalibrationHorizon ==
    121

\* the most centiseconds that pass between two readings of the clock in
\* ScreenTimeTracker.__init__
MaxInitDelay ==
    1

\* the minutes of a behaviour of the escalation specification: enough for
\* MAX_ESCALATION escalations
MaxEscalationTicks ==
    3

----------------------------------------------------------------------------
(* alert_system.py                                                         *)

AlertType ==
    {"eye_strain", "posture", "break_needed", "distance", "blink_reminder"}

AlertSeverity ==
    {"info", "warning", "critical"}

COOLDOWN_PERIODS ==
    [t \in AlertType |->
        CASE t = "eye_strain"     -> Seconds(120)
          [] t = "posture"        -> Seconds(60)
          [] t = "break_needed"   -> Seconds(300)
          [] t = "distance"       -> Seconds(30)
          [] t = "blink_reminder" -> Seconds(45)]

MAX_ESCALATION ==
    3

ESCALATION_INTERVAL ==
    Seconds(60)

ALERT_HISTORY_MAXLEN ==
    100

\* The callables that get registered: HealthMonitor._on_alert (registered by
\* HealthMonitor.__init__) and one more observer.
Observers ==
    {"_on_alert", "observer"}

\* AlertSystem.__init__, followed by the register_callback of
\* HealthMonitor.__init__
AlertSystemInit(today) ==
    [active_alerts       |-> <<>>,
     alert_history       |-> <<>>,
     last_alert_times    |-> [t \in AlertType |-> 0],
     escalation_counts   |-> [t \in AlertType |-> 0],
     pending_escalations |-> [t \in {} |-> 0],
     alert_callbacks     |-> <<"_on_alert">>,
     is_paused           |-> FALSE,
     pause_until         |-> None,
     alerts_today        |-> 0,
     last_reset_date     |-> today]

register_callback(e, callback) ==
    [e EXCEPT !.alert_callbacks = Append(@, callback)]

\* Every callback is called, in list order; an Exception raised by one is
\* caught and printed.  invoked: the callbacks called; logged: the ones whose
\* exception was printed; raised: whether an exception leaves the method.
notify_callbacks_Abort(callbacks, failing) ==
    LET bad == {i \in 1..Len(callbacks) : callbacks[i] \in failing}
        stop == IF bad = {} THEN Len(callbacks)
                ELSE CHOOSE i \in bad : \A j \in bad : i <= j
    IN  [invoked |-> SubSeq(callbacks, 1, stop),
         logged  |-> <<>>,
         raised  |-> bad # {}]

notify_callbacks(callbacks, failing) ==
    [invoked |-> callbacks,
     logged  |-> SelectSeq(callbacks, LAMBDA c : c \in failing),
     raised  |-> FALSE]

\* line 67: self.pause_until and time.time() >= self.pause_until
PauseExpired_Strict(e, t) ==
    Truthy(e.pause_until) /\ t > e.pause_until[1]

PauseExpired(e, t) ==
    Truthy(e.pause_until) /\ t >= e.pause_until[1]

\* lines 73-77: (current_time - last_time) >= cooldown
CooldownElapsed_Strict(e, alert_type, t) ==
    (t - e.last_alert_times[alert_type]) > COOLDOWN_PERIODS[alert_type]

CooldownElapsed(e, alert_type, t) ==
    (t - e.last_alert_times[alert_type]) >= COOLDOWN_PERIODS[alert_type]

can_send_alert_Stamping(e, alert_type, t) ==
    IF (e.is_paused /\ ~PauseExpired(e, t))
          \/ ~CooldownElapsed(e, alert_type, t)
    THEN [result |-> FALSE,
          engine |-> [e EXCEPT !.last_alert_times[alert_type] = t]]
    ELSE [result |-> TRUE,
          engine |-> [e EXCEPT !.is_paused = FALSE, !.pause_until = None]]

\* Returns the answer and the engine after the call: an expired pause is
\* cleared by the call.
can_send_alert(e, alert_type, t) ==
    LET e1 == IF e.is_paused /\ PauseExpired(e, t)
              THEN [e EXCEPT !.is_paused = FALSE, !.pause_until = None]
              ELSE e
    IN  IF e.is_paused /\ ~PauseExpired(e, t)
        THEN [result |-> FALSE, engine |-> e]
        ELSE [result |-> CooldownElapsed(e, alert_type, t), engine |-> e1]

schedule_escalation_NoCap(e, alert_type, t) ==
    [e EXCEPT !.pending_escalations =
        [x \in DOMAIN @ \cup {alert_type} |->
            IF x = alert_type THEN t + ESCALATION_INTERVAL ELSE @[x]]]

schedule_escalation(e, alert_type, t) ==
    IF e.escalation_counts[alert_type] < MAX_ESCALATION
    THEN [e EXCEPT !.pending_escalations =
             [x \in DOMAIN @ \cup {alert_type} |->
                 IF x = alert_type THEN t + ESCALATION_INTERVAL ELSE @[x]]]
    ELSE e

NewAlert_Unstamped(alert_type, severity, t, level) ==
    [alert_type       |-> alert_type,
     severity         |-> severity,
     timestamp        |-> t,
     acknowledged     |-> FALSE,
     escalation_level |-> 0]

\* The Alert dataclass.  title, message and recommendation are carried
\* through unread and are left out; no two alerts the engine creates agree
\* on (alert_type, timestamp), so dataclass equality is equality of these
\* records.
NewAlert(alert_type, severity, t, level) ==
    [alert_type       |-> alert_type,
     severity         |-> severity,
     timestamp        |-> t,
     acknowledged     |-> FALSE,
     escalation_level |-> level]

\* result: None or the created Alert; notified: the callbacks called;
\* raised: an exception leaves create_alert.
create_alert(e, alert_type, severity, t, today, failing) ==
    LET c  == can_send_alert(e, alert_type, t)
        e1 == c.engine
    IN  IF ~c.result
        THEN [engine |-> e1, result |-> None, notified |-> <<>>,
              logged |-> <<>>, raised |-> FALSE]
        ELSE
          LET e2 == IF today # e1.last_reset_date
                    THEN [e1 EXCEPT !.alerts_today = 0,
                                    !.last_reset_date = today]
                    ELSE e1
              alert == NewAlert(alert_type, severity, t,
                                e2.escalation_counts[alert_type])
              e3 == [e2 EXCEPT
                        !.active_alerts = Append(@, alert),
                        !.alert_history =
                            DequeAppend(@, alert, ALERT_HISTORY_MAXLEN),
                        !.last_alert_times[alert_type] = t,
                        !.alerts_today = @ + 1]
              n  == notify_callbacks(e3.alert_callbacks, failing)
              e4 == IF severity \in {"warning", "critical"}
                    THEN schedule_escalation(e3, alert_type, t)
                    ELSE e3
          IN  IF n.raised
              THEN [engine |-> e3, result |-> None, notified |-> n.invoked,
                    logged |-> n.logged, raised |-> TRUE]
              ELSE [engine |-> e4, result |-> Some(alert),
                    notified |-> n.invoked, logged |-> n.logged,
                    raised |-> FALSE]

Unacknowledged(e, alert_type) ==
    SelectSeq(e.active_alerts,
              LAMBDA a : a.alert_type = alert_type /\ ~a.acknowledged)

check_escalations_Early(e, t) ==
    [e EXCEPT
        !.pending_escalations = [x \in {} |-> 0],
        !.escalation_counts =
            [x \in AlertType |->
                IF x \in DOMAIN e.pending_escalations
                      /\ Len(Unacknowledged(e, x)) > 0
                THEN @[x] + 1 ELSE @[x]]]

check_escalations_PerAlert(e, t) ==
    LET due == {x \in DOMAIN e.pending_escalations :
                   t >= e.pending_escalations[x]}
    IN  [e EXCEPT
            !.pending_escalations = [x \in DOMAIN @ \ due |-> @[x]],
            !.escalation_counts =
                [x \in AlertType |->
                    IF x \in due THEN @[x] + Len(Unacknowledged(e, x))
                    ELSE @[x]]]

check_escalations(e, t) ==
    LET due == {x \in DOMAIN e.pending_escalations :
                   t >= e.pending_escalations[x]}
        escalations_to_process ==
               {x \in due : Len(Unacknowledged(e, x)) > 0}
    IN  [e EXCEPT
            !.pending_escalations = [x \in DOMAIN @ \ due |-> @[x]],
            !.escalation_counts =
                [x \in AlertType |->
                    IF x \in escalations_to_process THEN @[x] + 1 ELSE @[x]]]

\* alert is the Alert object as it is before the call.  The same object sits
\* in alert_history (and in active_alerts), so setting its flag shows there.
Acked(a) ==
    [a EXCEPT !.acknowledged = TRUE]

MarkIn(s, alert) ==
    [i \in 1..Len(s) |-> IF s[i] = alert THEN Acked(s[i]) ELSE s[i]]

acknowledge_alert_KeepEscalation(e, alert) ==
    [e EXCEPT
        !.alert_history = MarkIn(@, alert),
        !.escalation_counts[alert.alert_type] = 0,
        !.active_alerts =
            SelectSeq(MarkIn(@, alert), LAMBDA a : a # Acked(alert))]

acknowledge_alert(e, alert) ==
    [e EXCEPT
        !.alert_history = MarkIn(@, alert),
        !.pending_escalations =
            [x \in DOMAIN @ \ {alert.alert_type} |-> @[x]],
        !.escalation_counts[alert.alert_type] = 0,
        !.active_alerts =
            SelectSeq(MarkIn(@, alert), LAMBDA a : a # Acked(alert))]

acknowledge_all(e) ==
    [e EXCEPT
        !.alert_history =
            [i \in 1..Len(@) |->
                IF @[i] \in Range(e.active_alerts) THEN Acked(@[i]) ELSE @[i]],
        !.active_alerts = <<>>,
        !.pending_escalations = [x \in {} |-> 0],
        !.escalation_counts = [x \in AlertType |-> 0]]

pause_alerts(e, duration_seconds, t) ==
    [e EXCEPT !.is_paused = TRUE,
              !.pause_until = Some(t + Seconds(duration_seconds))]

resume_alerts_ResetCounts(e) ==
    [e EXCEPT !.is_paused = FALSE, !.pause_until = None,
              !.escalation_counts = [x \in AlertType |-> 0]]

resume_alerts(e) ==
    [e EXCEPT !.is_paused = FALSE, !.pause_until = None]

get_active_alerts(e) ==
    SelectSeq(e.active_alerts, LAMBDA a : ~a.acknowledged)

\* The dictionary of get_alert_summary, and the engine after the call.
\* pause_remaining: max(0, (pause_until or 0) - time.time()) if is_paused
get_alert_summary_ClearsPause(e, t) ==
    [engine |-> can_send_alert(e, "eye_strain", t).engine,
     result |-> [total_today |-> e.alerts_today, is_paused |-> e.is_paused]]

get_alert_summary(e, t) ==
    [engine |-> e,
     result |->
        [total_today     |-> e.alerts_today,
         active_count    |-> Len(get_active_alerts(e)),
         is_paused       |-> e.is_paused,
         pause_remaining |->
             IF e.is_paused /\ e.pause_until # None
                            /\ e.pause_until[1] - t > 0
             THEN e.pause_until[1] - t
             ELSE 0,
         by_type         |->
             [x \in AlertType |->
                 Len(SelectSeq(e.alert_history,
                               LAMBDA a : a.alert_type = x))]]]

----------------------------------------------------------------------------
(* screen_time_tracker.py                                                  *)

BreakType ==
    {"micro", "short", "long"}

MICRO_BREAK_INTERVAL ==
    Minutes(20)

SHORT_BREAK_INTERVAL ==
    Minutes(45)

LONG_BREAK_INTERVAL ==
    Minutes(90)

MICRO_BREAK_DURATION ==
    20

SHORT_BREAK_DURATION ==
    5 * 60

LONG_BREAK_DURATION ==
    15 * 60

IDLE_THRESHOLD ==
    Seconds(30)

IDLE_PERIODS_MAXLEN ==
    50

BREAK_COMPLIANCE_MAXLEN ==
    20

\* WorkSession dataclass
WorkSession(start_time) ==
    [start_time |-> start_time, end_time |-> None, breaks_taken |-> 0]

\* WorkSession.duration: end = self.end_time or time.time()
duration(session, t) ==
    (IF Truthy(session.end_time) THEN session.end_time[1] ELSE t)
        - session.start_time

ScreenTimeTrackerInit(t, today) ==
    [current_session          |-> None,
     sessions_today           |-> <<>>,
     last_activity_time       |-> t,
     is_user_present          |-> FALSE,
     continuous_work_time     |-> 0,
     last_micro_break         |-> t,
     last_short_break         |-> t,
     last_long_break          |-> t,
     total_screen_time_today  |-> 0,
     last_reset_date          |-> today,
     idle_periods             |-> <<>>,
     break_compliance_history |-> <<>>]

check_daily_reset_DropSession(s, today) ==
    IF today # s.last_reset_date
    THEN [s EXCEPT !.sessions_today = <<>>,
                   !.total_screen_time_today = 0,
                   !.current_session = None,
                   !.last_reset_date = today]
    ELSE s

check_daily_reset(s, today) ==
    IF today # s.last_reset_date
    THEN [s EXCEPT !.sessions_today = <<>>,
                   !.total_screen_time_today = 0,
                   !.last_reset_date = today]
    ELSE s

end_session_KeepOpen(s, t) ==
    IF s.current_session # None
    THEN [s EXCEPT !.sessions_today = Append(@, s.current_session[1]),
                   !.current_session = None]
    ELSE s

\* The session is closed at the time of the call (end_time = time.time()).
end_session(s, t) ==
    IF s.current_session # None
    THEN LET closed == [s.current_session[1] EXCEPT !.end_time = Some(t)]
         IN  [s EXCEPT !.sessions_today = Append(@, closed),
                       !.total_screen_time_today = @ + duration(closed, t),
                       !.current_session = None]
    ELSE s

start_session(s, t) ==
    LET s1 == IF s.current_session # None THEN end_session(s, t) ELSE s
    IN  [s1 EXCEPT !.current_session = Some(WorkSession(t)),
                   !.continuous_work_time = 0]

screen_update_NoThreshold(s, face_detected, t, today) ==
    LET s0 == check_daily_reset(s, today)
    IN  IF face_detected
        THEN LET s1 == IF ~s0.is_user_present THEN start_session(s0, t)
                       ELSE s0
                 s2 == [s1 EXCEPT !.is_user_present = TRUE,
                                  !.last_activity_time = t]
             IN  IF s2.current_session # None
                 THEN [s2 EXCEPT !.continuous_work_time =
                                     t - s2.current_session[1].start_time]
                 ELSE s2
        ELSE LET idle_time == t - s0.last_activity_time
                 s1 == IF s0.is_user_present
                       THEN [end_session(s0, t) EXCEPT
                               !.idle_periods = DequeAppend(@,
                                   [start |-> s0.last_activity_time,
                                    duration |-> idle_time],
                                   IDLE_PERIODS_MAXLEN)]
                       ELSE s0
             IN  [s1 EXCEPT !.is_user_present = FALSE]

\* ScreenTimeTracker.update
screen_update(s, face_detected, t, today) ==
    LET s0 == check_daily_reset(s, today)
    IN  IF face_detected
        THEN LET s1 == IF ~s0.is_user_present THEN start_session(s0, t)
                       ELSE s0
                 s2 == [s1 EXCEPT !.is_user_present = TRUE,
                                  !.last_activity_time = t]
             IN  IF s2.current_session # None
                 THEN [s2 EXCEPT !.continuous_work_time =
                                     t - s2.current_session[1].start_time]
                 ELSE s2
        ELSE LET idle_time == t - s0.last_activity_time
             IN  IF idle_time >= IDLE_THRESHOLD
                 THEN LET s1 == IF s0.is_user_present
                                THEN [end_session(s0, t) EXCEPT
                                        !.idle_periods = DequeAppend(@,
                                            [start |-> s0.last_activity_time,
                                             duration |-> idle_time],
                                            IDLE_PERIODS_MAXLEN)]
                                ELSE s0
                      IN  [s1 EXCEPT !.is_user_present = FALSE]
                 ELSE s0

record_break_taken_OwnTier(s, break_type, t) ==
    LET s1 == CASE break_type = "micro" ->
                     [s EXCEPT !.last_micro_break = t]
                [] break_type = "short" ->
                     [s EXCEPT !.last_short_break = t]
                [] OTHER ->
                     [s EXCEPT !.last_long_break = t]
        s2 == IF s1.current_session # None
              THEN [s1 EXCEPT !.current_session[1].breaks_taken = @ + 1]
              ELSE s1
    IN  [s2 EXCEPT
            !.break_compliance_history = DequeAppend(@,
                [type |-> break_type, timestamp |-> t,
                 work_duration |-> s.continuous_work_time],
                BREAK_COMPLIANCE_MAXLEN),
            !.continuous_work_time = 0]

record_break_taken(s, break_type, t) ==
    LET s1 == CASE break_type = "micro" ->
                     [s EXCEPT !.last_micro_break = t]
                [] break_type = "short" ->
                     [s EXCEPT !.last_short_break = t,
                               !.last_micro_break = t]
                [] OTHER ->
                     [s EXCEPT !.last_long_break = t,
                               !.last_short_break = t,
                               !.last_micro_break = t]
        s2 == IF s1.current_session # None
              THEN [s1 EXCEPT !.current_session[1].breaks_taken = @ + 1]
              ELSE s1
    IN  [s2 EXCEPT
            !.break_compliance_history = DequeAppend(@,
                [type |-> break_type, timestamp |-> t,
                 work_duration |-> s.continuous_work_time],
                BREAK_COMPLIANCE_MAXLEN),
            !.continuous_work_time = 0]

\* The BreakRecommendation returned (break_type and duration_seconds; the
\* reason and the exercises are fixed texts per tier), or None.
BreakRecommendation(break_type, duration_seconds) ==
    [break_type |-> break_type, duration_seconds |-> duration_seconds]

get_break_recommendation_MicroFirst(s, t) ==
    IF t - s.last_micro_break >= MICRO_BREAK_INTERVAL
    THEN Some(BreakRecommendation("micro", MICRO_BREAK_DURATION))
    ELSE IF t - s.last_short_break >= SHORT_BREAK_INTERVAL
    THEN Some(BreakRecommendation("short", SHORT_BREAK_DURATION))
    ELSE IF t - s.last_long_break >= LONG_BREAK_INTERVAL
    THEN Some(BreakRecommendation("long", LONG_BREAK_DURATION))
    ELSE None

get_break_recommendation(s, t) ==
    IF t - s.last_long_break >= LONG_BREAK_INTERVAL
    THEN Some(BreakRecommendation("long", LONG_BREAK_DURATION))
    ELSE IF t - s.last_short_break >= SHORT_BREAK_INTERVAL
    THEN Some(BreakRecommendation("short", SHORT_BREAK_DURATION))
    ELSE IF t - s.last_micro_break >= MICRO_BREAK_INTERVAL
    THEN Some(BreakRecommendation("micro", MICRO_BREAK_DURATION))
    ELSE None

RECURSIVE SumBreaks(_)
SumBreaks(sessions) ==
    IF sessions = <<>> THEN 0
    ELSE sessions[1].breaks_taken + SumBreaks(Tail(sessions))

Max0(x) ==
    IF x > 0 THEN x ELSE 0

\* The dictionary of get_statistics.  Times are left in centiseconds: the
\* source divides the *_minutes entries by 60 (seconds to minutes), a
\* scaling that needs fractions.  average_session_minutes, a quotient, is
\* left out.
get_statistics(s, t) ==
    LET open == s.current_session # None
        current_session_time ==
            IF open THEN duration(s.current_session[1], t) ELSE 0
    IN  [total_screen_time_today |->
             s.total_screen_time_today + current_session_time,
         current_session         |-> current_session_time,
         continuous_work         |-> s.continuous_work_time,
         sessions_count          |->
             Len(s.sessions_today) + (IF open THEN 1 ELSE 0),
         breaks_taken_today      |->
             SumBreaks(s.sessions_today)
               + (IF open THEN s.current_session[1].breaks_taken ELSE 0),
         is_user_present         |-> s.is_user_present,
         time_until_micro_break  |->
             Max0(MICRO_BREAK_INTERVAL - (t - s.last_micro_break)),
         time_until_short_break  |->
             Max0(SHORT_BREAK_INTERVAL - (t - s.last_short_break)),
         time_until_long_break   |->
             Max0(LONG_BREAK_INTERVAL - (t - s.last_long_break))]

\* The dictionary of get_daily_summary.  break_compliance_rate is
\* on_time / len(recent) * 100: the two counts are kept; the date and the
\* texts of the recommendations are left out.
get_daily_summary(s, t) ==
    LET stats == get_statistics(s, t)
    IN  [total_screen_time_today |-> stats.total_screen_time_today,
         sessions     |-> stats.sessions_count,
         breaks_taken |-> stats.breaks_taken_today,
         on_time      |->
             Len(SelectSeq(s.break_compliance_history,
                           LAMBDA b : 10 * b.work_duration
                                          < 12 * SHORT_BREAK_INTERVAL)),
         recent       |-> Len(s.break_compliance_history)]

----------------------------------------------------------------------------
(* eye_tracker.py                                                          *)
(* Eye aspect ratios are in thousandths; blink rates in hundredths of a    *)
(* blink per minute.                                                       *)

EAR_BLINK_THRESHOLD ==
    210

MIN_BLINK_DURATION ==
    5

MAX_BLINK_DURATION ==
    50

BLINK_HISTORY_MAXLEN ==
    100

EAR_HISTORY_MAXLEN ==
    30

CALIBRATION_DURATION ==
    120

CALIBRATION_MIN_BLINKS ==
    5

BlinkEvent(timestamp, blink_duration) ==
    [timestamp |-> timestamp, duration |-> blink_duration]

EyeTrackerInit(t) ==
    [blink_history          |-> <<>>,
     ear_history            |-> <<>>,
     is_eye_closed          |-> FALSE,
     eye_close_start_time   |-> None,
     last_blink_time        |-> t,
     baseline_blink_rate    |-> None,
     calibration_blinks     |-> <<>>,
     is_calibrating         |-> TRUE,
     calibration_start_time |-> t,
     calibration_duration   |-> CALIBRATION_DURATION]

complete_calibration_AnyCount(e) ==
    [e EXCEPT !.baseline_blink_rate =
                  Some((Len(e.calibration_blinks) * 100 * 60)
                           \div e.calibration_duration),
              !.is_calibrating = FALSE,
              !.calibration_blinks = <<>>]

\* duration_minutes = calibration_duration / 60;
\* baseline = len(calibration_blinks) / duration_minutes
complete_calibration(e) ==
    LET e1 == IF Len(e.calibration_blinks) >= CALIBRATION_MIN_BLINKS
              THEN [e EXCEPT !.baseline_blink_rate =
                       Some((Len(e.calibration_blinks) * 100 * 60)
                                \div e.calibration_duration)]
              ELSE e
    IN  [e1 EXCEPT !.is_calibrating = FALSE, !.calibration_blinks = <<>>]

\* line 63: MIN_BLINK_DURATION <= blink_duration <= MAX_BLINK_DURATION
IsBlink_NoMax(blink_duration) ==
    MIN_BLINK_DURATION <= blink_duration

IsBlink(blink_duration) ==
    MIN_BLINK_DURATION <= blink_duration
        /\ blink_duration <= MAX_BLINK_DURATION

\* EyeTracker.update.  left_ear + right_ear is even for the readings the
\* model feeds, so the average is exact.
eye_update(e, left_ear, right_ear, t) ==
    LET avg_ear == (left_ear + right_ear) \div 2
        e0 == [e EXCEPT !.ear_history =
                  DequeAppend(@, avg_ear, EAR_HISTORY_MAXLEN)]
        opening == e0.is_eye_closed /\ Truthy(e0.eye_close_start_time)
        blink_duration == t - e0.eye_close_start_time[1]
        blink == avg_ear >= EAR_BLINK_THRESHOLD /\ opening
                    /\ IsBlink(blink_duration)
        blink_event == BlinkEvent(t, blink_duration)
        e1 == IF avg_ear < EAR_BLINK_THRESHOLD
              THEN IF ~e0.is_eye_closed
                   THEN [e0 EXCEPT !.is_eye_closed = TRUE,
                                   !.eye_close_start_time = Some(t)]
                   ELSE e0
              ELSE IF opening
              THEN LET e01 == IF IsBlink(blink_duration)
                              THEN [e0 EXCEPT
                                      !.blink_history = DequeAppend(@,
                                          blink_event, BLINK_HISTORY_MAXLEN),
                                      !.last_blink_time = t,
                                      !.calibration_blinks =
                                          IF e0.is_calibrating
                                          THEN Append(@, t) ELSE @]
                              ELSE e0
                   IN  [e01 EXCEPT !.is_eye_closed = FALSE,
                                   !.eye_close_start_time = None]
              ELSE e0
        e2 == IF e1.is_calibrating
                 /\ t - e1.calibration_start_time
                        >= Seconds(e1.calibration_duration)
              THEN complete_calibration(e1)
              ELSE e1
    IN  [tracker |-> e2,
         result  |-> IF blink THEN Some(blink_event) ELSE None]

\* Blink rates are in hundredths of a blink per minute.
HEALTHY_BLINK_RATE_MIN ==
    1200

WARNING_BLINK_RATE ==
    800

CRITICAL_BLINK_RATE ==
    500

BLINK_HISTORY_WINDOW ==
    60

RECURSIVE Sum(_)
Sum(s) ==
    IF s = <<>> THEN 0 ELSE Head(s) + Sum(Tail(s))

\* line 94: the blinks of the history with b.timestamp >= window_start
RecentBlinks(e, t) ==
    SelectSeq(e.blink_history,
              LAMBDA b : b.timestamp >= t - Seconds(BLINK_HISTORY_WINDOW))

get_current_blink_rate_NoMinimum(e, t) ==
    (Len(RecentBlinks(e, t)) * 100 * 60) \div BLINK_HISTORY_WINDOW

\* duration_minutes = BLINK_HISTORY_WINDOW / 60 = 1
get_current_blink_rate(e, t) ==
    IF Len(RecentBlinks(e, t)) < 2 THEN 0
    ELSE (Len(RecentBlinks(e, t)) * 100 * 60) \div BLINK_HISTORY_WINDOW

\* The part of the score that the blink rate decides (lines 109-114 and
\* 128-133); baseline is the Optional baseline_blink_rate.
\* rate_deviation = (baseline - blink_rate) / baseline, compared with 0.5
\* and 0.3 (a set baseline is positive).
RatePenalty_Inverted(blink_rate, baseline) ==
    IF blink_rate > HEALTHY_BLINK_RATE_MIN THEN 40 ELSE 0

RatePenalty(blink_rate, baseline) ==
    (IF blink_rate < CRITICAL_BLINK_RATE THEN 40
     ELSE IF blink_rate < WARNING_BLINK_RATE THEN 25
     ELSE IF blink_rate < HEALTHY_BLINK_RATE_MIN THEN 10
     ELSE 0)
    + (IF Truthy(baseline)
       THEN IF 2 * (baseline[1] - blink_rate) > baseline[1] THEN 15
            ELSE IF 10 * (baseline[1] - blink_rate) > 3 * baseline[1] THEN 8
            ELSE 0
       ELSE 0)

\* lines 116-121
IdlePenalty(time_since_blink) ==
    IF time_since_blink > Seconds(30) THEN 30
    ELSE IF time_since_blink > Seconds(15) THEN 15
    ELSE IF time_since_blink > Seconds(10) THEN 5
    ELSE 0

\* lines 123-126; the mean ratio is ear_sum / ear_count, in thousandths
EarPenalty(ear_sum, ear_count) ==
    IF ear_sum < 220 * ear_count THEN 20
    ELSE IF ear_sum < 240 * ear_count THEN 10
    ELSE 0

Min(a, b) ==
    IF a < b THEN a ELSE b

Max(a, b) ==
    IF a > b THEN a ELSE b

\* The score of calculate_eye_strain_score from the values it reads.
StrainScore(blink_rate, time_since_blink, ear_sum, ear_count, baseline) ==
    Min(100, RatePenalty(blink_rate, baseline)
               + IdlePenalty(time_since_blink)
               + EarPenalty(ear_sum, ear_count))

\* avg_ear = sum(ear_history) / len(ear_history) if ear_history else 0.25
calculate_eye_strain_score(e, t) ==
    StrainScore(get_current_blink_rate(e, t),
                t - e.last_blink_time,
                IF e.ear_history = <<>> THEN 250 ELSE Sum(e.ear_history),
                IF e.ear_history = <<>> THEN 1 ELSE Len(e.ear_history),
                e.baseline_blink_rate)

EyeStatusOf(score) ==
    IF score >= 60 THEN "critical"
    ELSE IF score >= 30 THEN "warning"
    ELSE "healthy"

get_health_status(e, t) ==
    EyeStatusOf(calculate_eye_strain_score(e, t))

\* EyeHealthMetrics; avg_blink_duration and current_ear, quotients that the
\* core does not read back, are left out.
eye_get_metrics(e, t) ==
    [blink_rate            |-> get_current_blink_rate(e, t),
     eye_strain_score      |-> calculate_eye_strain_score(e, t),
     status                |-> get_health_status(e, t),
     time_since_last_blink |-> t - e.last_blink_time]

----------------------------------------------------------------------------
(* posture_analyzer.py                                                     *)
(* Angles are in degrees and distances in centimetres, as integers.  A     *)
(* smoothed value is the mean of a history: it is kept as the pair of the  *)
(* sum and the count, and a comparison mean > T is sum > T * count.        *)
(* A baseline is a median, which may be a half: it is kept doubled.        *)

IDEAL_DISTANCE_MIN ==
    30

IDEAL_DISTANCE_MAX ==
    50

WARNING_DISTANCE_MIN ==
    20

CRITICAL_DISTANCE_MIN ==
    10

HEAD_TILT_WARNING ==
    20

HEAD_TILT_CRITICAL ==
    25

FORWARD_HEAD_WARNING ==
    20

FORWARD_HEAD_CRITICAL ==
    35

HEAD_ROLL_WARNING ==
    15

HEAD_ROLL_CRITICAL ==
    25

BAD_POSTURE_ALERT_THRESHOLD ==
    Seconds(30)

POSTURE_HISTORY_MAXLEN ==
    30

POSTURE_CALIBRATION_DURATION ==
    30

POSTURE_CALIBRATION_MIN_SAMPLES ==
    10

PostureAnalyzerInit(t) ==
    [pitch_history                |-> <<>>,
     yaw_history                  |-> <<>>,
     roll_history                 |-> <<>>,
     distance_history             |-> <<>>,
     baseline_pitch               |-> None,
     baseline_yaw                 |-> None,
     baseline_distance            |-> None,
     calibration_data             |-> <<>>,
     is_calibrating               |-> TRUE,
     calibration_start_time       |-> t,
     calibration_duration         |-> POSTURE_CALIBRATION_DURATION,
     bad_posture_start_time       |-> None,
     current_bad_posture_duration |-> 0,
     total_bad_posture_time       |-> 0]

Abs(x) ==
    IF x < 0 THEN -x ELSE x

\* the k-th smallest element of a sequence of numbers
KthSmallest(s, k) ==
    CHOOSE v \in Range(s) :
        /\ Cardinality({i \in 1..Len(s) : s[i] < v}) < k
        /\ k <= Cardinality({i \in 1..Len(s) : s[i] <= v})

\* np.median, doubled
Median2(s) ==
    IF Len(s) % 2 = 1
    THEN 2 * KthSmallest(s, (Len(s) + 1) \div 2)
    ELSE KthSmallest(s, Len(s) \div 2) + KthSmallest(s, Len(s) \div 2 + 1)

Column(data, k) ==
    [i \in 1..Len(data) |-> data[i][k]]

posture_complete_calibration(p) ==
    LET p1 == IF Len(p.calibration_data) >= POSTURE_CALIBRATION_MIN_SAMPLES
              THEN [p EXCEPT
                      !.baseline_pitch =
                          Some(Median2(Column(p.calibration_data, 1))),
                      !.baseline_yaw =
                          Some(Median2(Column(p.calibration_data, 2))),
                      !.baseline_distance =
                          Some(Median2(Column(p.calibration_data, 4)))]
              ELSE p
    IN  [p1 EXCEPT !.is_calibrating = FALSE, !.calibration_data = <<>>]

\* np.mean(history) as sum and count; the default when the history is empty
Smoothed(history, default) ==
    IF history = <<>> THEN [sum |-> default, count |-> 1]
    ELSE [sum |-> Sum(history), count |-> Len(history)]

get_smoothed_values(p) ==
    [pitch    |-> Smoothed(p.pitch_history, 0),
     yaw      |-> Smoothed(p.yaw_history, 0),
     roll     |-> Smoothed(p.roll_history, 0),
     distance |-> Smoothed(p.distance_history, 50)]

\* abs(mean - (baseline or 0)) > threshold, the baseline doubled
DeviationAbove(m, baseline, threshold) ==
    Abs(2 * m.sum - (IF Truthy(baseline) THEN baseline[1] ELSE 0) * m.count)
        > 2 * threshold * m.count

MeanBelow(m, threshold) ==
    m.sum < threshold * m.count

MeanAbove(m, threshold) ==
    m.sum > threshold * m.count

\* The penalties of calculate_posture_score (lines 103-133): 100 minus
\* their sum is the score before max(0, .).
PosturePenalties(p) ==
    LET v == get_smoothed_values(p)
    IN  (IF DeviationAbove(v.pitch, p.baseline_pitch, FORWARD_HEAD_CRITICAL)
         THEN 30
         ELSE IF DeviationAbove(v.pitch, p.baseline_pitch,
                                FORWARD_HEAD_WARNING)
         THEN 15 ELSE 0)
      + (IF DeviationAbove(v.roll, None, HEAD_ROLL_CRITICAL) THEN 25
         ELSE IF DeviationAbove(v.roll, None, HEAD_ROLL_WARNING) THEN 12
         ELSE 0)
      + (IF DeviationAbove(v.yaw, p.baseline_yaw, HEAD_TILT_CRITICAL) THEN 20
         ELSE IF DeviationAbove(v.yaw, p.baseline_yaw, HEAD_TILT_WARNING)
         THEN 10 ELSE 0)
      + (IF MeanBelow(v.distance, CRITICAL_DISTANCE_MIN) THEN 30
         ELSE IF MeanBelow(v.distance, WARNING_DISTANCE_MIN) THEN 15
         ELSE IF MeanBelow(v.distance, IDEAL_DISTANCE_MIN) THEN 5
         ELSE IF MeanAbove(v.distance, IDEAL_DISTANCE_MAX + 30) THEN 10
         ELSE 0)
      + (IF p.current_bad_posture_duration > Seconds(120) THEN 15
         ELSE IF p.current_bad_posture_duration > Seconds(60) THEN 8
         ELSE 0)

ClampBelow_None(score) ==
    score

\* line 135: max(0, score)
ClampBelow(score) ==
    Max(0, score)

calculate_posture_score(p) ==
    ClampBelow(100 - PosturePenalties(p))

PostureStatusOf(score) ==
    IF score >= 70 THEN "good"
    ELSE IF score >= 40 THEN "warning"
    ELSE "poor"

get_status(p) ==
    PostureStatusOf(calculate_posture_score(p))

posture_update_Recount(p, head_pose, distance, t) ==
    LET p0 == [p EXCEPT
                 !.pitch_history =
                     DequeAppend(@, head_pose[1], POSTURE_HISTORY_MAXLEN),
                 !.yaw_history =
                     DequeAppend(@, head_pose[2], POSTURE_HISTORY_MAXLEN),
                 !.roll_history =
                     DequeAppend(@, head_pose[3], POSTURE_HISTORY_MAXLEN),
                 !.distance_history =
                     DequeAppend(@, distance, POSTURE_HISTORY_MAXLEN)]
        p1 == IF p0.is_calibrating
              THEN LET pc == [p0 EXCEPT !.calibration_data =
                                Append(@, <<head_pose[1], head_pose[2],
                                            head_pose[3], distance>>)]
                   IN  IF t - pc.calibration_start_time
                            >= Seconds(pc.calibration_duration)
                       THEN posture_complete_calibration(pc)
                       ELSE pc
              ELSE p0
    IN  IF get_status(p1) # "good"
        THEN LET start == IF p1.bad_posture_start_time = None THEN t
                          ELSE p1.bad_posture_start_time[1]
             IN  [p1 EXCEPT !.bad_posture_start_time = Some(start),
                            !.current_bad_posture_duration = t - start,
                            !.total_bad_posture_time = @ + (t - start)]
        ELSE [p1 EXCEPT
                !.bad_posture_start_time = None,
                !.current_bad_posture_duration = 0]

\* PostureAnalyzer.update; head_pose is <<pitch, yaw, roll>>
posture_update(p, head_pose, distance, t) ==
    LET p0 == [p EXCEPT
                 !.pitch_history =
                     DequeAppend(@, head_pose[1], POSTURE_HISTORY_MAXLEN),
                 !.yaw_history =
                     DequeAppend(@, head_pose[2], POSTURE_HISTORY_MAXLEN),
                 !.roll_history =
                     DequeAppend(@, head_pose[3], POSTURE_HISTORY_MAXLEN),
                 !.distance_history =
                     DequeAppend(@, distance, POSTURE_HISTORY_MAXLEN)]
        p1 == IF p0.is_calibrating
              THEN LET pc == [p0 EXCEPT !.calibration_data =
                                Append(@, <<head_pose[1], head_pose[2],
                                            head_pose[3], distance>>)]
                   IN  IF t - pc.calibration_start_time
                            >= Seconds(pc.calibration_duration)
                       THEN posture_complete_calibration(pc)
                       ELSE pc
              ELSE p0
    IN  IF get_status(p1) # "good"
        THEN LET start == IF p1.bad_posture_start_time = None THEN t
                          ELSE p1.bad_posture_start_time[1]
             IN  [p1 EXCEPT !.bad_posture_start_time = Some(start),
                            !.current_bad_posture_duration = t - start]
        ELSE [p1 EXCEPT
                !.total_bad_posture_time =
                    IF Truthy(p1.bad_posture_start_time)
                    THEN @ + p1.current_bad_posture_duration ELSE @,
                !.bad_posture_start_time = None,
                !.current_bad_posture_duration = 0]

should_alert_NoThreshold(p) ==
    get_status(p) # "good"

should_alert(p) ==
    /\ p.current_bad_posture_duration >= BAD_POSTURE_ALERT_THRESHOLD
    /\ get_status(p) # "good"

\* PostureMetrics; the smoothed values and the texts of the issues, which
\* the core does not read back, are left out.
posture_get_metrics(p) ==
    [posture_score        |-> calculate_posture_score(p),
     status               |-> get_status(p),
     bad_posture_duration |-> p.current_bad_posture_duration]

----------------------------------------------------------------------------
(* health_monitor.py                                                       *)
(* A HealthMonitor is the record of its four trackers.  The overall score  *)
(* is in tenths, so that the halves of the weighted sum are whole.  The    *)
(* DataLogger, which the trackers do not read, is left out.                *)

\* lines 196-201: max(0, min(100, eye_score * 0.5 + posture_score * 0.5))
calculate_overall_score_EyeOnly(eye_strain_score, posture_score) ==
    Max(0, Min(1000, 10 * (100 - eye_strain_score)))

calculate_overall_score(eye_strain_score, posture_score) ==
    Max(0, Min(1000, 5 * (100 - eye_strain_score) + 5 * posture_score))

\* lines 203-210
determine_overall_status(score) ==
    IF score >= 850 THEN "excellent"
    ELSE IF score >= 700 THEN "good"
    ELSE IF score >= 500 THEN "fair"
    ELSE "needs_attention"

CreateAlerts_FirstOnly(e, requests, t, today) ==
    IF requests = <<>> THEN e
    ELSE create_alert(e, requests[1].alert_type, requests[1].severity, t,
                      today, {}).engine

\* create_alert(**alert_data) for each request in turn; the monitor's
\* observer _on_alert raises nothing.
RECURSIVE CreateAlerts(_, _, _, _)
CreateAlerts(e, requests, t, today) ==
    IF requests = <<>> THEN e
    ELSE CreateAlerts(create_alert(e, requests[1].alert_type,
                                   requests[1].severity, t, today, {}).engine,
                      Tail(requests), t, today)

\* HealthMonitor._check_and_send_alerts on the trackers of m.  calls: the
\* calls made on the alert system, in order.
check_and_send_alerts(m, eye_metrics, posture_metrics, t, today) ==
    LET request(alert_type, severity) ==
            <<[alert_type |-> alert_type, severity |-> severity]>>
        break_rec == get_break_recommendation(m.screen_time_tracker, t)
        requests ==
            (IF eye_metrics.status = "critical"
             THEN request("eye_strain", "critical")
             ELSE IF eye_metrics.status = "warning"
             THEN request("eye_strain", "warning")
             ELSE <<>>)
            \o (IF should_alert(m.posture_analyzer)
                THEN request("posture",
                             IF posture_metrics.status = "poor"
                             THEN "critical" ELSE "warning")
                ELSE <<>>)
            \o (IF break_rec # None
                THEN request("break_needed",
                             IF break_rec[1].break_type = "long"
                             THEN "warning" ELSE "info")
                ELSE <<>>)
    IN  [alert_system |->
             check_escalations(CreateAlerts(m.alert_system, requests, t,
                                            today), t),
         calls |-> [i \in 1..Len(requests) |-> "create_alert"]
                       \o <<"check_escalations">>]

\* HealthMonitor.process_frame when the monitor is running and the camera
\* delivers a frame; face_detected: landmarks were found in it.  Every
\* time.time() of one frame reads t.  monitor: the trackers after the call;
\* calls: the calls made on the alert system that may change it; state: the
\* HealthState returned, a dictionary being <<>> when it is empty.
process_frame_TrackAbsent(m, face_detected, left_ear, right_ear, head_pose, distance, t, today) ==
    LET s1 == screen_update(m.screen_time_tracker, face_detected, t, today)
        y1 == eye_update(m.eye_tracker, left_ear, right_ear, t).tracker
    IN  [monitor |-> [m EXCEPT !.screen_time_tracker = s1,
                               !.eye_tracker = y1],
         calls   |-> <<>>,
         state   |-> [overall_status    |-> "good",
                      overall_score     |-> 1000,
                      eye_metrics       |-> <<>>,
                      posture_metrics   |-> <<>>,
                      screen_time_stats |-> get_statistics(s1, t),
                      active_alerts     |-> get_active_alerts(m.alert_system),
                      is_calibrating    |-> FALSE,
                      is_user_present   |-> FALSE]]

process_frame(m, face_detected, left_ear, right_ear, head_pose, distance, t, today) ==
    LET s1 == screen_update(m.screen_time_tracker, face_detected, t, today)
    IN  IF ~face_detected
        THEN [monitor |-> [m EXCEPT !.screen_time_tracker = s1],
              calls   |-> <<>>,
              state   |->
                  [overall_status    |-> "good",
                   overall_score     |-> 1000,
                   eye_metrics       |-> <<>>,
                   posture_metrics   |-> <<>>,
                   screen_time_stats |-> get_statistics(s1, t),
                   active_alerts     |-> get_active_alerts(m.alert_system),
                   is_calibrating    |-> FALSE,
                   is_user_present   |-> FALSE]]
        ELSE
          LET y1 == eye_update(m.eye_tracker, left_ear, right_ear, t).tracker
              p1 == posture_update(m.posture_analyzer, head_pose, distance, t)
              m1 == [m EXCEPT !.screen_time_tracker = s1,
                              !.eye_tracker = y1,
                              !.posture_analyzer = p1]
              eye_metrics     == eye_get_metrics(y1, t)
              posture_metrics == posture_get_metrics(p1)
              sent == check_and_send_alerts(m1, eye_metrics, posture_metrics,
                                            t, today)
              overall_score ==
                  calculate_overall_score(eye_metrics.eye_strain_score,
                                          posture_metrics.posture_score)
          IN  [monitor |-> [m1 EXCEPT !.alert_system = sent.alert_system],
               calls   |-> sent.calls,
               state   |->
                   [overall_status    |->
                        determine_overall_status(overall_score),
                    overall_score     |-> overall_score,
                    eye_metrics       |-> Some(eye_metrics),
                    posture_metrics   |-> Some(posture_metrics),
                    screen_time_stats |-> get_statistics(s1, t),
                    active_alerts     |->
                        get_active_alerts(sent.alert_system),
                    is_calibrating    |->
                        y1.is_calibrating \/ p1.is_calibrating,
                    is_user_present   |-> TRUE]]

----------------------------------------------------------------------------
(* The state after HealthMonitor.__init__                                  *)

\* last_call names the operation of the last step when the operation
\* returns a value or calls out: its argument, its result and the observers
\* it called.  A step of any other operation leaves NoCall.
\* raised: an exception left the operation.
Call(op, arg, result) ==
    [op |-> op, arg |-> arg, result |-> result, notified |-> <<>>,
     logged |-> <<>>, raised |-> FALSE]

NoCall ==
    Call("none", "", None)

Init ==
    /\ now = Epoch
    /\ date = 0
    /\ day_start = Epoch
    /\ ticks = 0
    /\ alert_system = AlertSystemInit(0)
    /\ screen_time_tracker = ScreenTimeTrackerInit(Epoch, 0)
    /\ eye_tracker = EyeTrackerInit(Epoch)
    /\ posture_analyzer = PostureAnalyzerInit(Epoch)
    /\ last_call = NoCall

\* The state after construction when the clock moves while
\* ScreenTimeTracker.__init__ runs: last_micro_break, last_short_break and
\* last_long_break are three readings of time.time(), taken in that order.
InitTiers ==
    \E short_delay \in 0..MaxInitDelay, long_delay \in 0..MaxInitDelay :
        /\ now = Epoch + short_delay + long_delay
        /\ date = 0
        /\ day_start = Epoch
        /\ ticks = 0
        /\ alert_system = AlertSystemInit(0)
        /\ screen_time_tracker =
              [ScreenTimeTrackerInit(Epoch, 0) EXCEPT
                  !.last_short_break = Epoch + short_delay,
                  !.last_long_break = Epoch + short_delay + long_delay]
        /\ eye_tracker = EyeTrackerInit(Epoch)
        /\ posture_analyzer = PostureAnalyzerInit(Epoch)
        /\ last_call = NoCall

\* The clock advances by d; midnight passes iff roll.
Tick(d, roll) ==
    /\ now' = now + d
    /\ ticks' = ticks + 1
    /\ roll => date < MaxDate
    /\ date' = IF roll THEN date + 1 ELSE date
    /\ day_start' = IF roll THEN now + d ELSE day_start

----------------------------------------------------------------------------
(* Operations on the alert system                                          *)

AlertSteps ==
    {Seconds(15), Seconds(30), Seconds(300)}

PauseDurations ==
    {0, 30}

\* One behaviour raises alerts of one type: every dictionary of the engine
\* is indexed by the type, and the types are told apart by their cooldown
\* alone.
TypesRaised ==
    {alert_system.alert_history[i].alert_type :
        i \in 1..Len(alert_system.alert_history)}

MayRaise(alert_type) ==
    TypesRaised \subseteq {alert_type}

\* The calendar date does not change in the alert specifications.
AdvanceAlert ==
    \E d \in AlertSteps :
        /\ ticks < MaxAlertTicks
        /\ Tick(d, FALSE)
        /\ last_call' = NoCall
        /\ UNCHANGED <<alert_system, screen_time_tracker, eye_tracker, posture_analyzer>>

RegisterCallback(callback) ==
    /\ Len(alert_system.alert_callbacks) < MaxCallbacks
    /\ alert_system' = register_callback(alert_system, callback)
    /\ last_call' = NoCall
    /\ UNCHANGED <<now, date, day_start, ticks, screen_time_tracker,
                   eye_tracker, posture_analyzer>>

CanSendAlert(alert_type) ==
    LET c == can_send_alert(alert_system, alert_type, now)
    IN  /\ MayRaise(alert_type)
        /\ alert_system' = c.engine
        /\ last_call' = Call("can_send_alert", alert_type, Some(c.result))
        /\ UNCHANGED <<now, date, day_start, ticks, screen_time_tracker,
                       eye_tracker, posture_analyzer>>

\* failing: the observers that raise an Exception when called
CreateAlert(alert_type, severity, failing) ==
    /\ MayRaise(alert_type)
    /\ \E r \in {create_alert(alert_system, alert_type, severity, now, date,
                             failing)} :
        /\ r.result # None => Len(alert_system.alert_history) < MaxAlerts
        /\ alert_system' = r.engine
        /\ last_call' = [op |-> "create_alert", arg |-> alert_type,
                         result |-> r.result, notified |-> r.notified,
                         logged |-> r.logged, raised |-> r.raised]
        /\ UNCHANGED <<now, date, day_start, ticks, screen_time_tracker,
                       eye_tracker, posture_analyzer>>

CheckEscalations ==
    /\ alert_system' = check_escalations(alert_system, now)
    /\ last_call' = NoCall
    /\ UNCHANGED <<now, date, day_start, ticks, screen_time_tracker,
                   eye_tracker, posture_analyzer>>

\* HealthMonitor.acknowledge_alert(alert_index), which hands the alert at
\* that index of get_active_alerts() to AlertSystem.acknowledge_alert
AcknowledgeAlert(alert_index) ==
    LET alerts == get_active_alerts(alert_system)
    IN  /\ alert_system' =
              IF 0 <= alert_index /\ alert_index < Len(alerts)
              THEN acknowledge_alert(alert_system, alerts[alert_index + 1])
              ELSE alert_system
        /\ last_call' = NoCall
        /\ UNCHANGED <<now, date, day_start, ticks, screen_time_tracker,
                       eye_tracker, posture_analyzer>>

\* AlertSystem.acknowledge_all, HealthMonitor.acknowledge_all_alerts
AcknowledgeAll ==
    /\ alert_system' = acknowledge_all(alert_system)
    /\ last_call' = NoCall
    /\ UNCHANGED <<now, date, day_start, ticks, screen_time_tracker,
                   eye_tracker, posture_analyzer>>

PauseAlerts(duration_seconds) ==
    /\ alert_system' = pause_alerts(alert_system, duration_seconds, now)
    /\ last_call' = NoCall
    /\ UNCHANGED <<now, date, day_start, ticks, screen_time_tracker,
                   eye_tracker, posture_analyzer>>

ResumeAlerts ==
    /\ alert_system' = resume_alerts(alert_system)
    /\ last_call' = NoCall
    /\ UNCHANGED <<now, date, day_start, ticks, screen_time_tracker,
                   eye_tracker, posture_analyzer>>

\* Cooldown, escalation and acknowledgement
NextAlert ==
    \/ AdvanceAlert
    \/ \E alert_type \in AlertType, severity \in AlertSeverity :
            CreateAlert(alert_type, severity, {})
    \/ CheckEscalations
    \/ \E alert_index \in 0..MaxAlerts : AcknowledgeAlert(alert_index)
    \/ AcknowledgeAll

SpecAlert ==
    Init /\ [][NextAlert]_vars

\* Pause and resume
NextPause ==
    \/ AdvanceAlert
    \/ \E alert_type \in AlertType : CanSendAlert(alert_type)
    \/ \E alert_type \in AlertType, severity \in AlertSeverity :
            CreateAlert(alert_type, severity, {})
    \/ \E duration_seconds \in PauseDurations : PauseAlerts(duration_seconds)
    \/ ResumeAlerts

SpecPause ==
    Init /\ [][NextPause]_vars

\* Observers
NextObservers ==
    \/ AdvanceAlert
    \/ \E callback \in Observers : RegisterCallback(callback)
    \/ \E alert_type \in AlertType, severity \in AlertSeverity,
          failing \in SUBSET Observers :
            CreateAlert(alert_type, severity, failing)

SpecObservers ==
    Init /\ [][NextObservers]_vars

\* the alerts of a behaviour of the escalation specification: one past the
\* escalation cap, so that an alert is created at the highest level
MaxEscalationAlerts ==
    MAX_ESCALATION + 1

\* The clock advances by the escalation interval, which is the cooldown of
\* posture alerts as well.
EscalationAdvance ==
    /\ ticks < MaxEscalationTicks
    /\ Tick(ESCALATION_INTERVAL, FALSE)
    /\ last_call' = NoCall
    /\ UNCHANGED <<alert_system, screen_time_tracker, eye_tracker,
                   posture_analyzer>>

\* create_alert for a posture alert
EscalationCreate(severity) ==
    LET r == create_alert(alert_system, "posture", severity, now, date, {})
    IN  /\ r.result # None
            => Len(alert_system.alert_history) < MaxEscalationAlerts
        /\ alert_system' = r.engine
        /\ last_call' = [op |-> "create_alert", arg |-> severity,
                         result |-> r.result, notified |-> r.notified,
                         logged |-> r.logged, raised |-> r.raised]
        /\ UNCHANGED <<now, date, day_start, ticks, screen_time_tracker,
                       eye_tracker, posture_analyzer>>

\* Escalation up to MAX_ESCALATION: posture alerts a minute apart, with
\* acknowledgements and pauses
NextEscalation ==
    \/ EscalationAdvance
    \/ \E severity \in AlertSeverity : EscalationCreate(severity)
    \/ CheckEscalations
    \/ AcknowledgeAlert(0)
    \/ AcknowledgeAll
    \/ PauseAlerts(30)
    \/ ResumeAlerts

SpecEscalation ==
    Init /\ [][NextEscalation]_vars

\* The alerts of a long bad posture: a tick of the monitor every minute (the
\* posture cooldown) with should_alert() true makes _check_and_send_alerts
\* call create_alert and then check_escalations.
HistoryTick ==
    LET t == now + COOLDOWN_PERIODS["posture"]
        r == create_alert(alert_system, "posture", "warning", t, date, {})
    IN  /\ ticks < MaxHistoryTicks
        /\ Tick(COOLDOWN_PERIODS["posture"], FALSE)
        /\ alert_system' = check_escalations(r.engine, t)
        /\ last_call' = [op |-> "create_alert", arg |-> "posture",
                         result |-> r.result, notified |-> r.notified,
                         logged |-> r.logged, raised |-> r.raised]
        /\ UNCHANGED <<screen_time_tracker, eye_tracker, posture_analyzer>>

\* The user acknowledges the oldest alert now and then, or never.
NextHistory ==
    \/ HistoryTick
    \/ Len(alert_system.active_alerts) > 0 /\ AcknowledgeAlert(0)

SpecHistory ==
    Init /\ [][NextHistory]_vars

----------------------------------------------------------------------------
(* Operations on the screen-time tracker                                   *)

\* 30 s is the idle threshold, 45 minutes half a long work session
ScreenSteps ==
    {Seconds(30), Minutes(45)}

\* 20 and 45 minutes are the micro and the short break intervals (twice 45
\* minutes is the long one)
BreakSteps ==
    {Minutes(20), Minutes(45)}

\* The clock advances; midnight may pass.
AdvanceScreen ==
    \E d \in ScreenSteps, roll \in BOOLEAN :
        /\ ticks < MaxScreenTicks
        /\ Tick(d, roll)
        /\ last_call' = NoCall
        /\ UNCHANGED <<alert_system, screen_time_tracker, eye_tracker, posture_analyzer>>

AdvanceBreaks ==
    \E d \in BreakSteps :
        /\ ticks < MaxScreenTicks
        /\ Tick(d, FALSE)
        /\ last_call' = NoCall
        /\ UNCHANGED <<alert_system, screen_time_tracker, eye_tracker, posture_analyzer>>

ScreenUpdate(face_detected) ==
    /\ screen_time_tracker' =
          screen_update(screen_time_tracker, face_detected, now, date)
    /\ last_call' = NoCall
    /\ UNCHANGED <<now, date, day_start, ticks, alert_system, eye_tracker, posture_analyzer>>

\* HealthMonitor.record_break
RecordBreak(break_type) ==
    /\ Len(screen_time_tracker.break_compliance_history) < MaxBreaks
    /\ screen_time_tracker' =
          record_break_taken(screen_time_tracker, break_type, now)
    /\ last_call' = NoCall
    /\ UNCHANGED <<now, date, day_start, ticks, alert_system, eye_tracker, posture_analyzer>>

GetBreakRecommendation ==
    /\ last_call' = Call("get_break_recommendation", "",
                         get_break_recommendation(screen_time_tracker, now))
    /\ UNCHANGED <<now, date, day_start, ticks, alert_system,
                   screen_time_tracker, eye_tracker, posture_analyzer>>

GetStatistics ==
    /\ last_call' = Call("get_statistics", "",
                         Some(get_statistics(screen_time_tracker, now)))
    /\ UNCHANGED <<now, date, day_start, ticks, alert_system,
                   screen_time_tracker, eye_tracker, posture_analyzer>>

\* Sessions, the daily reset and the statistics.  The break recorded is the
\* one main.py records (BreakType.SHORT).
NextScreen ==
    \/ AdvanceScreen
    \/ \E face_detected \in BOOLEAN : ScreenUpdate(face_detected)
    \/ RecordBreak("short")
    \/ GetStatistics

SpecScreen ==
    Init /\ [][NextScreen]_vars

\* Break reminders
NextBreaks ==
    \/ AdvanceBreaks
    \/ \E face_detected \in BOOLEAN : ScreenUpdate(face_detected)
    \/ \E break_type \in BreakType : RecordBreak(break_type)
    \/ GetBreakRecommendation

SpecBreaks ==
    Init /\ [][NextBreaks]_vars

\* The tiers of the breaks: up to MaxTierBreaks breaks of any tier, 20 or 45
\* minutes apart or at the same time.
TierAdvance ==
    \E d \in BreakSteps :
        /\ ticks < MaxTierTicks
        /\ Tick(d, FALSE)
        /\ last_call' = NoCall
        /\ UNCHANGED <<alert_system, screen_time_tracker, eye_tracker, posture_analyzer>>

TierBreak(break_type) ==
    /\ Len(screen_time_tracker.break_compliance_history) < MaxTierBreaks
    /\ screen_time_tracker' =
          record_break_taken(screen_time_tracker, break_type, now)
    /\ last_call' = Call("record_break_taken", break_type, None)
    /\ UNCHANGED <<now, date, day_start, ticks, alert_system, eye_tracker, posture_analyzer>>

NextTiers ==
    \/ TierAdvance
    \/ \E break_type \in BreakType : TierBreak(break_type)

SpecTiers ==
    InitTiers /\ [][NextTiers]_vars

----------------------------------------------------------------------------
(* Operations on the eye tracker                                           *)

\* 0.04 s, 0.05 s, 0.5 s, 0.51 s, and the calibration window
EyeSteps ==
    {4, 5, 50, 51, Seconds(120)}

\* eye aspect ratios of one eye: closed (0.200) and open (0.220); the
\* average of the two is 0.210, the threshold itself
EarReadings ==
    {200, 220}

\* One frame: the clock has advanced by d since the last frame when
\* EyeTracker.update is called.
EyeFrame(d, left_ear, right_ear) ==
    LET r == eye_update(eye_tracker, left_ear, right_ear, now + d)
    IN  /\ Tick(d, FALSE)
        /\ eye_tracker' = r.tracker
        /\ last_call' = Call("eye_update", "", r.result)
        /\ UNCHANGED <<alert_system, screen_time_tracker, posture_analyzer>>

EyeUpdate(d, left_ear, right_ear) ==
    /\ ticks < MaxEyeTicks
    /\ EyeFrame(d, left_ear, right_ear)

NextEye ==
    \E d \in EyeSteps, left_ear \in EarReadings, right_ear \in EarReadings :
        EyeUpdate(d, left_ear, right_ear)

SpecEye ==
    Init /\ [][NextEye]_vars

\* Rapid blinking: frames 0.05 s apart on which the eyes open if they were
\* closed and close if they were open.
RapidBlinkFrame ==
    /\ ticks < MaxBlinkFrames
    /\ IF eye_tracker.is_eye_closed
       THEN EyeFrame(5, 220, 220)
       ELSE EyeFrame(5, 200, 200)

\* just under a minute, and a minute
PauseSteps ==
    {Seconds(60) - 10, Seconds(60)}

\* A frame with the eyes open after a while without frames.
PauseFrame(d) ==
    /\ ticks < MaxEarlyFrames
    /\ EyeFrame(d, 220, 220)

GetCurrentBlinkRate ==
    /\ last_call' = Call("get_current_blink_rate", "",
                         Some(get_current_blink_rate(eye_tracker, now)))
    /\ UNCHANGED <<now, date, day_start, ticks, alert_system,
                   screen_time_tracker, eye_tracker, posture_analyzer>>

\* The blink rate
NextBlinkRate ==
    \/ RapidBlinkFrame
    \/ \E d \in PauseSteps : PauseFrame(d)
    \/ GetCurrentBlinkRate

SpecBlinkRate ==
    Init /\ [][NextBlinkRate]_vars

\* The calibration window: frames on which the eyes open if they were closed
\* and close if they were open, 0.05 s after the frame before, or after a
\* while without frames that ends 0.02 s before the end of the window when
\* it follows ten frames, or lasts the whole window.
CalibrationFrame(d) ==
    /\ ticks < MaxCalibrationFrames
    /\ now + d <= Epoch + Seconds(CalibrationHorizon)
    /\ IF eye_tracker.is_eye_closed
       THEN EyeFrame(d, 220, 220)
       ELSE EyeFrame(d, 200, 200)

NextCalibration ==
    \E d \in {5, Seconds(CALIBRATION_DURATION) - 52,
              Seconds(CALIBRATION_DURATION)} :
        CalibrationFrame(d)

SpecCalibration ==
    Init /\ [][NextCalibration]_vars

----------------------------------------------------------------------------
(* Operations on the posture analyzer                                      *)

\* 3 s between frames, and pauses that pass the tiers of the bad-posture
\* duration (60 s and 120 s)
PostureSteps ==
    {Seconds(3), Seconds(61), Seconds(121)}

\* <<head_pose, distance>>: upright at 40 cm (score 100); pitch 40 and
\* roll 20 (score 58); every signal past its critical threshold (penalties
\* 105)
PostureReadings ==
    {<<(<<0, 0, 0>>), 40>>, <<(<<40, 0, 20>>), 40>>, <<(<<40, 30, 30>>), 5>>}

\* How many frames brought a reading other than the frame before (read off
\* the histories, which hold every frame while there are fewer than
\* POSTURE_HISTORY_MAXLEN).
PoseChanges(p) ==
    Cardinality({i \in 1..(Len(p.pitch_history) - 1) :
        \/ p.pitch_history[i] # p.pitch_history[i + 1]
        \/ p.yaw_history[i] # p.yaw_history[i + 1]
        \/ p.roll_history[i] # p.roll_history[i + 1]
        \/ p.distance_history[i] # p.distance_history[i + 1]})

\* One frame: the clock has advanced by d since the last frame when
\* PostureAnalyzer.update is called.
PostureFrame(d, head_pose, distance) ==
    /\ Tick(d, FALSE)
    /\ posture_analyzer' =
           posture_update(posture_analyzer, head_pose, distance, now + d)
    /\ last_call' = Call("posture_update", "", None)
    /\ UNCHANGED <<alert_system, screen_time_tracker, eye_tracker>>

\* The frames of a user who changes pose at most MaxPoseChanges times, up
\* to PostureHorizon seconds after the start.
PostureUpdate(d, head_pose, distance) ==
    /\ ticks < MaxPostureFrames
    /\ now + d <= Epoch + Seconds(PostureHorizon)
    /\ PoseChanges(posture_update(posture_analyzer, head_pose, distance,
                                  now + d)) <= MaxPoseChanges
    /\ PostureFrame(d, head_pose, distance)

ShouldAlert ==
    /\ last_call' = Call("should_alert", "",
                         Some(should_alert(posture_analyzer)))
    /\ UNCHANGED <<now, date, day_start, ticks, alert_system,
                   screen_time_tracker, eye_tracker, posture_analyzer>>

NextPosture ==
    \/ \E d \in PostureSteps, reading \in PostureReadings :
           PostureUpdate(d, reading[1], reading[2])
    \/ ShouldAlert

SpecPosture ==
    Init /\ [][NextPosture]_vars

----------------------------------------------------------------------------
(* Operations on the health monitor                                        *)

HealthMonitor ==
    [alert_system        |-> alert_system,
     screen_time_tracker |-> screen_time_tracker,
     eye_tracker         |-> eye_tracker,
     posture_analyzer    |-> posture_analyzer]

\* One tick of the monitor: the clock has advanced by d since the last
\* when process_frame is called.  last_call holds the calls made on the
\* alert system and the HealthState returned.
ProcessFrame(d, face_detected, left_ear, right_ear, head_pose, distance) ==
    LET r == process_frame(HealthMonitor, face_detected, left_ear, right_ear,
                           head_pose, distance, now + d, date)
    IN  /\ ticks < MaxFrames
        /\ Tick(d, FALSE)
        /\ alert_system' = r.monitor.alert_system
        /\ screen_time_tracker' = r.monitor.screen_time_tracker
        /\ eye_tracker' = r.monitor.eye_tracker
        /\ posture_analyzer' = r.monitor.posture_analyzer
        /\ last_call' = Call("process_frame",
                             IF face_detected THEN "present" ELSE "absent",
                             <<r.calls, r.state>>)

\* Frames 3 s, 31 s and 20 min apart; both eyes closed (0.200) or wide open
\* (0.250); the user upright at 40 cm, or with every posture signal past
\* its critical threshold.
NextMonitor ==
    \E d \in {Seconds(3), Seconds(31), Minutes(20)},
       face_detected \in BOOLEAN,
       ear \in {200, 250},
       reading \in {<<(<<0, 0, 0>>), 40>>, <<(<<40, 30, 30>>), 5>>} :
        ProcessFrame(d, face_detected, ear, ear, reading[1], reading[2])

SpecMonitor ==
    Init /\ [][NextMonitor]_vars

GetAlertSummary ==
    LET r == get_alert_summary(alert_system, now)
    IN  /\ alert_system' = r.engine
        /\ last_call' = Call("get_alert_summary", "", Some(r.result))
        /\ UNCHANGED <<now, date, day_start, ticks, screen_time_tracker,
                       eye_tracker, posture_analyzer>>

GetActiveAlerts ==
    /\ last_call' = Call("get_active_alerts", "",
                         get_active_alerts(alert_system))
    /\ UNCHANGED <<now, date, day_start, ticks, alert_system,
                   screen_time_tracker, eye_tracker, posture_analyzer>>

GetDailySummary ==
    /\ last_call' = Call("get_daily_summary", "",
                         Some(get_daily_summary(screen_time_tracker, now)))
    /\ UNCHANGED <<now, date, day_start, ticks, alert_system,
                   screen_time_tracker, eye_tracker, posture_analyzer>>

\* The queries, between the ticks of a monitor whose user sits upright with
\* the eyes open, takes a break and pauses the alerts for 30 s.
NextQueries ==
    \/ \E d \in {Seconds(31), Minutes(20)}, face_detected \in BOOLEAN :
           ProcessFrame(d, face_detected, 250, 250, <<0, 0, 0>>, 40)
    \/ PauseAlerts(30)
    \/ RecordBreak("short")
    \/ GetAlertSummary
    \/ GetActiveAlerts
    \/ GetStatistics
    \/ GetDailySummary
    \/ GetBreakRecommendation

SpecQueries ==
    Init /\ [][NextQueries]_vars

\* _calculate_overall_score and _determine_overall_status on the scores of
\* the metrics (one call in a behaviour)
CalculateOverallScore(eye_strain_score, posture_score) ==
    LET score == calculate_overall_score(eye_strain_score, posture_score)
    IN  /\ last_call = NoCall
        /\ last_call' = Call("calculate_overall_score", "",
                             <<eye_strain_score, posture_score, score,
                               determine_overall_status(score)>>)
        /\ UNCHANGED <<now, date, day_start, ticks, alert_system,
                       screen_time_tracker, eye_tracker, posture_analyzer>>

NextOverall ==
    \E eye_strain_score \in 0..100, posture_score \in 0..100 :
        CalculateOverallScore(eye_strain_score, posture_score)

SpecOverall ==
    Init /\ [][NextOverall]_vars

\* Frames that carry readings no face produces: an eye aspect ratio of
\* -0.100, a pitch of 400 degrees, a distance of -5 cm.
NextInvalid ==
    \/ \E ear \in {-100, 250} : EyeUpdate(Seconds(3), ear, ear)
    \/ \E reading \in {<<(<<0, 0, 0>>), 40>>, <<(<<400, 0, 0>>), 40>>,
                        <<(<<0, 0, 0>>), -5>>} :
           PostureUpdate(Seconds(3), reading[1], reading[2])

SpecInvalid ==
    Init /\ [][NextInvalid]_vars

----------------------------------------------------------------------------
(* Properties of the alert system                                          *)

\* The alerts of a type in the history (the history holds every alert
\* created: fewer than ALERT_HISTORY_MAXLEN are created in a behaviour).
AlertsOf(e, alert_type) ==
    SelectSeq(e.alert_history, LAMBDA a : a.alert_type = alert_type)

HasAlert(e, alert_type) ==
    Len(AlertsOf(e, alert_type)) > 0

\* timestamp of the last created alert of the type
LastCreated(e, alert_type) ==
    AlertsOf(e, alert_type)[Len(AlertsOf(e, alert_type))].timestamp

\* C1: with the engine not paused, a create_alert(T) call made less than
\* C(T) after the last created alert of T creates nothing (history and
\* active set unchanged, result None), and a call made at least C(T) after it
\* creates an alert of type T stamped with the time of the call.
C1_CooldownStep(alert_type, severity) ==
    (/\ last_call'.op = "create_alert"
     /\ last_call'.arg = alert_type
     /\ CreateAlert(alert_type, severity, {})
     /\ ~alert_system.is_paused
     /\ HasAlert(alert_system, alert_type))
    =>
    IF now - LastCreated(alert_system, alert_type)
          < COOLDOWN_PERIODS[alert_type]
    THEN /\ alert_system'.alert_history = alert_system.alert_history
         /\ alert_system'.active_alerts = alert_system.active_alerts
         /\ last_call'.result = None
    ELSE /\ Len(alert_system'.alert_history)
              = Len(alert_system.alert_history) + 1
         /\ Len(alert_system'.active_alerts)
              = Len(alert_system.active_alerts) + 1
         /\ LastCreated(alert_system', alert_type) = now
         /\ last_call'.result =
              Some(alert_system'.alert_history[
                      Len(alert_system'.alert_history)])
         /\ last_call'.result[1].alert_type = alert_type
         /\ last_call'.result[1].severity = severity

C1_Cooldown ==
    [][last_call'.op = "create_alert" =>
          \A severity \in AlertSeverity :
              C1_CooldownStep(last_call'.arg, severity)]_vars

\* two alerts of one type were created exactly one cooldown apart, and a
\* further call inside the window of the second has just been rejected
C1_Witness ==
    /\ last_call.op = "create_alert"
    /\ last_call.result = None
    /\ ~alert_system.is_paused
    /\ Len(alert_system.alert_history) = 2
    /\ alert_system.alert_history[2].timestamp
         - alert_system.alert_history[1].timestamp
         = COOLDOWN_PERIODS[last_call.arg]
    /\ alert_system.alert_history[2].alert_type = last_call.arg
    /\ now - alert_system.alert_history[2].timestamp
         < COOLDOWN_PERIODS[last_call.arg]

\* C2: pause_alerts(N) at time t sets the expiry t + N; a create_alert call
\* of any type made while paused and before the expiry changes nothing and
\* returns None; the first can_send_alert or create_alert at or after the
\* expiry clears the pause and answers by the cooldown alone; resume_alerts
\* clears the pause at any time.
C2_PauseStep ==
    /\ \A duration_seconds \in PauseDurations :
         (last_call'.op = "none" /\ PauseAlerts(duration_seconds)) =>
            /\ alert_system'.is_paused
            /\ alert_system'.pause_until
                 = Some(now + Seconds(duration_seconds))
    /\ (last_call'.op = "none" /\ ResumeAlerts) =>
            /\ ~alert_system'.is_paused
            /\ alert_system'.pause_until = None
    /\ \A alert_type \in AlertType :
         /\ \A severity \in AlertSeverity :
              (/\ last_call'.op = "create_alert"
               /\ last_call'.arg = alert_type
               /\ CreateAlert(alert_type, severity, {})
               /\ alert_system.is_paused) =>
                 IF now < alert_system.pause_until[1]
                 THEN /\ alert_system' = alert_system
                      /\ last_call'.result = None
                 ELSE /\ ~alert_system'.is_paused
                      /\ alert_system'.pause_until = None
                      /\ (last_call'.result # None) <=>
                           (now - alert_system.last_alert_times[alert_type]
                              >= COOLDOWN_PERIODS[alert_type])
         /\ (/\ last_call'.op = "can_send_alert"
             /\ last_call'.arg = alert_type
             /\ CanSendAlert(alert_type)
             /\ alert_system.is_paused) =>
                 IF now < alert_system.pause_until[1]
                 THEN /\ alert_system' = alert_system
                      /\ last_call'.result = Some(FALSE)
                 ELSE /\ ~alert_system'.is_paused
                      /\ alert_system'.pause_until = None
                      /\ last_call'.result[1] <=>
                           (now - alert_system.last_alert_times[alert_type]
                              >= COOLDOWN_PERIODS[alert_type])

C2_Pause ==
    [][C2_PauseStep]_vars

\* a create_alert call that the cooldown allows has just been rejected,
\* some time after the pause began and before its expiry
C2_Witness ==
    /\ last_call.op = "create_alert"
    /\ last_call.result = None
    /\ alert_system.is_paused
    /\ now < alert_system.pause_until[1]
    /\ now > Epoch
    /\ now - alert_system.last_alert_times[last_call.arg]
         >= COOLDOWN_PERIODS[last_call.arg]

\* C3: check_escalations at or after the armed time of a type with an
\* unacknowledged active alert of the type adds exactly 1 to the type's
\* escalation count and disarms it; a type that is not armed, or whose time
\* has not come, keeps its count; acknowledging disarms the type and sets
\* its count to 0.
C3_EscalationStep ==
    /\ (last_call'.op = "none" /\ CheckEscalations) =>
         \A t \in AlertType :
            IF /\ t \in DOMAIN alert_system.pending_escalations
               /\ now >= alert_system.pending_escalations[t]
            THEN /\ t \notin DOMAIN alert_system'.pending_escalations
                 /\ alert_system'.escalation_counts[t] =
                      alert_system.escalation_counts[t]
                        + (IF Len(Unacknowledged(alert_system, t)) > 0
                           THEN 1 ELSE 0)
            ELSE /\ alert_system'.escalation_counts[t]
                      = alert_system.escalation_counts[t]
                 /\ t \in DOMAIN alert_system.pending_escalations =>
                      /\ t \in DOMAIN alert_system'.pending_escalations
                      /\ alert_system'.pending_escalations[t]
                           = alert_system.pending_escalations[t]
    /\ \A alert_index \in 0..MaxAlerts :
         (/\ last_call'.op = "none"
          /\ AcknowledgeAlert(alert_index)
          /\ alert_index < Len(get_active_alerts(alert_system))) =>
           LET t == get_active_alerts(alert_system)[alert_index + 1].alert_type
           IN  /\ t \notin DOMAIN alert_system'.pending_escalations
               /\ alert_system'.escalation_counts[t] = 0

C3_Escalation ==
    [][C3_EscalationStep]_vars

\* a type with two unacknowledged alerts has been escalated once
C3_Witness ==
    \E t \in AlertType :
        /\ alert_system.escalation_counts[t] = 1
        /\ t \notin DOMAIN alert_system.pending_escalations
        /\ Len(Unacknowledged(alert_system, t)) = 2

\* C4: for every type whose cooldown has not elapsed since its last created
\* alert, the active set holds at most one alert of the type.
C4_OneActivePerType ==
    \A t \in AlertType :
        (now - alert_system.last_alert_times[t] < COOLDOWN_PERIODS[t]) =>
            Len(SelectSeq(alert_system.active_alerts,
                          LAMBDA a : a.alert_type = t)) <= 1

\* C5: acknowledge_alert(a) marks a acknowledged, takes it out of the active
\* set, disarms a's type and sets the type's count to 0; acknowledge_all
\* does so for every active alert, leaving the active set empty, nothing
\* armed and every count 0.  The alerts of the history (but for the flag)
\* and the last-sent times are unchanged.
Unflagged(s) ==
    [i \in 1..Len(s) |-> [s[i] EXCEPT !.acknowledged = FALSE]]

C5_AcknowledgeStep ==
    /\ \A alert_index \in 0..MaxAlerts :
         (/\ last_call'.op = "none"
          /\ AcknowledgeAlert(alert_index)
          /\ alert_index < Len(get_active_alerts(alert_system))) =>
           LET a == get_active_alerts(alert_system)[alert_index + 1]
           IN  /\ Acked(a) \in Range(alert_system'.alert_history)
               /\ a \notin Range(alert_system'.alert_history)
               /\ a \notin Range(alert_system'.active_alerts)
               /\ Acked(a) \notin Range(alert_system'.active_alerts)
               /\ a.alert_type
                    \notin DOMAIN alert_system'.pending_escalations
               /\ alert_system'.escalation_counts[a.alert_type] = 0
               /\ Unflagged(alert_system'.alert_history)
                    = Unflagged(alert_system.alert_history)
               /\ alert_system'.last_alert_times
                    = alert_system.last_alert_times
    /\ (last_call'.op = "none" /\ AcknowledgeAll) =>
           /\ \A a \in Range(alert_system.active_alerts) :
                /\ Acked(a) \in Range(alert_system'.alert_history)
                /\ a \notin Range(alert_system'.alert_history)
           /\ alert_system'.active_alerts = <<>>
           /\ DOMAIN alert_system'.pending_escalations = {}
           /\ \A t \in AlertType : alert_system'.escalation_counts[t] = 0
           /\ Unflagged(alert_system'.alert_history)
                = Unflagged(alert_system.alert_history)
           /\ alert_system'.last_alert_times = alert_system.last_alert_times

C5_Acknowledge ==
    [][C5_AcknowledgeStep]_vars

\* one of two alerts that armed an escalation has been acknowledged alone:
\* it is out of the active set, the other is still in it, nothing is armed
C5_Witness ==
    /\ Len(alert_system.alert_history) = 2
    /\ Len(alert_system.active_alerts) = 1
    /\ alert_system.alert_history[2].acknowledged
    /\ ~alert_system.alert_history[1].acknowledged
    /\ alert_system.alert_history[1].severity = "warning"
    /\ alert_system.alert_history[2].severity = "critical"
    /\ alert_system.active_alerts[1] = alert_system.alert_history[1]
    /\ DOMAIN alert_system.pending_escalations = {}

\* C6: when create_alert creates an alert, every registered observer is
\* called once, in registration order, whichever observers fail; the alert
\* is returned and is in the active set and the history, and the engine is
\* left exactly as by the same call with no failing observer.
C6_ObserverStep(alert_type, severity, failing) ==
    (/\ last_call'.op = "create_alert"
     /\ last_call'.arg = alert_type
     /\ ~alert_system.is_paused
     /\ now - alert_system.last_alert_times[alert_type]
          >= COOLDOWN_PERIODS[alert_type]
     /\ last_call'.result # None => last_call'.result[1].severity = severity
     /\ CreateAlert(alert_type, severity, failing))
    =>
    LET a == NewAlert(alert_type, severity, now,
                      alert_system.escalation_counts[alert_type])
    IN  /\ last_call'.notified = alert_system.alert_callbacks
        /\ last_call'.result = Some(a)
        /\ a \in Range(alert_system'.active_alerts)
        /\ a \in Range(alert_system'.alert_history)
        /\ alert_system'.last_alert_times[alert_type] = now
        /\ ~last_call'.raised
        /\ alert_system' =
             create_alert(alert_system, alert_type, severity, now, date,
                          {}).engine

C6_Observers ==
    [][last_call'.op = "create_alert" =>
          \A severity \in AlertSeverity, failing \in SUBSET Observers :
              C6_ObserverStep(last_call'.arg, severity, failing)]_vars

\* an alert was created with two observers registered; the first one
\* failed and the second was still called
C6_Witness ==
    /\ last_call.op = "create_alert"
    /\ last_call.result # None
    /\ Len(last_call.notified) = 2
    /\ last_call.logged = <<last_call.notified[1]>>
    /\ last_call.notified[1] # last_call.notified[2]
    /\ last_call.result[1].alert_type
         \in DOMAIN alert_system.pending_escalations

----------------------------------------------------------------------------
(* Properties of the screen-time tracker                                   *)

\* The statistics a get_statistics call returns right after the step
StatisticsAfter ==
    get_statistics(screen_time_tracker', now')

\* C7: an absent tick at least IDLE_THRESHOLD after the last present tick,
\* with the user present, closes exactly one session (the open one), whose
\* duration is the elapsed presence time: from the first present tick (the
\* session's start) to the last present tick; the next present tick opens a
\* new session.
C7_SessionStep ==
    /\ (/\ last_call'.op = "none"
        /\ ScreenUpdate(FALSE)
        /\ screen_time_tracker.is_user_present
        /\ now - screen_time_tracker.last_activity_time >= IDLE_THRESHOLD)
       =>
       LET sessions == screen_time_tracker'.sessions_today
           closed   == sessions[Len(sessions)]
       IN  /\ screen_time_tracker.current_session # None
           /\ screen_time_tracker'.current_session = None
           /\ ~screen_time_tracker'.is_user_present
           /\ Len(sessions) =
                (IF date # screen_time_tracker.last_reset_date THEN 0
                 ELSE Len(screen_time_tracker.sessions_today)) + 1
           /\ closed.start_time
                = screen_time_tracker.current_session[1].start_time
           /\ duration(closed, now) =
                screen_time_tracker.last_activity_time - closed.start_time
    /\ (/\ last_call'.op = "none"
        /\ ScreenUpdate(TRUE)
        /\ ~screen_time_tracker.is_user_present)
       =>
       /\ screen_time_tracker'.current_session = Some(WorkSession(now))
       /\ screen_time_tracker'.is_user_present

C7_SessionDuration ==
    [][C7_SessionStep]_vars

\* the breaks recorded at or after the time t
BreaksSince(s, t) ==
    Len(SelectSeq(s.break_compliance_history, LAMBDA b : b.timestamp >= t))

\* C8: after an update on which the calendar date differs from the last
\* reset date, the statistics of today hold nothing from before the date
\* changed: the total screen time is at most the time since the change, the
\* sessions counted are open or were closed after the change, and the breaks
\* counted were recorded after the change.
C8_RolloverStep ==
    \A face_detected \in BOOLEAN :
        (/\ last_call'.op = "none"
         /\ ScreenUpdate(face_detected)
         /\ date # screen_time_tracker.last_reset_date)
        =>
        /\ screen_time_tracker'.last_reset_date = date
        /\ StatisticsAfter.total_screen_time_today <= now - day_start
        /\ \A i \in 1..Len(screen_time_tracker'.sessions_today) :
              screen_time_tracker'.sessions_today[i].end_time[1] >= day_start
        /\ StatisticsAfter.sessions_count <=
              Len(screen_time_tracker'.sessions_today) + 1
        /\ StatisticsAfter.breaks_taken_today
              <= BreaksSince(screen_time_tracker', day_start)

C8_Rollover ==
    [][C8_RolloverStep]_vars

\* the tiers in the order of their priority, and whether a tier is overdue
TierOrder ==
    <<"long", "short", "micro">>

Overdue(tier) ==
    CASE tier = "long" ->
           now - screen_time_tracker.last_long_break >= Minutes(90)
      [] tier = "short" ->
           now - screen_time_tracker.last_short_break >= Minutes(45)
      [] OTHER ->
           now - screen_time_tracker.last_micro_break >= Minutes(20)

\* C9: get_break_recommendation returns the first overdue tier in the order
\* long, short, micro, with the duration of the tier (900 s, 300 s, 20 s),
\* and None iff no tier is overdue; with all three overdue it returns long.
C9_BreakPriority ==
    last_call.op = "get_break_recommendation" =>
        /\ (last_call.result = None) <=>
              (\A i \in 1..3 : ~Overdue(TierOrder[i]))
        /\ \A i \in 1..3 :
              (Overdue(TierOrder[i]) /\ \A j \in 1..(i - 1) :
                                            ~Overdue(TierOrder[j]))
              => /\ last_call.result # None
                 /\ last_call.result[1].break_type = TierOrder[i]
                 /\ last_call.result[1].duration_seconds
                      = <<900, 300, 20>>[i]

\* the three tiers are overdue and the recommendation returned is long
C9_Witness ==
    /\ last_call.op = "get_break_recommendation"
    /\ \A i \in 1..3 : Overdue(TierOrder[i])
    /\ last_call.result # None
    /\ last_call.result[1].break_type = "long"

----------------------------------------------------------------------------
(* Properties of the eye tracker                                           *)

\* C10: an update that opens the eyes (average ratio at or above the
\* threshold, eyes closed before) after a closed interval d in
\* [0.05 s, 0.5 s] appends exactly one BlinkEvent of duration d, returns it
\* and sets last_blink_time; with d outside the band it records nothing,
\* returns None and leaves last_blink_time.  After every step, every
\* BlinkEvent of the history (empty at first) has its duration in the band.
C10_BlinkStep ==
    \A d \in EyeSteps, left_ear \in EarReadings, right_ear \in EarReadings :
        (/\ last_call'.op = "eye_update"
         /\ EyeUpdate(d, left_ear, right_ear)
         /\ eye_tracker.is_eye_closed
         /\ 2 * 210 <= left_ear + right_ear)
        =>
        LET closed == now' - eye_tracker.eye_close_start_time[1]
            event  == [timestamp |-> now', duration |-> closed]
        IN  /\ ~eye_tracker'.is_eye_closed
            /\ IF 5 <= closed /\ closed <= 50
               THEN /\ eye_tracker'.blink_history
                         = Append(eye_tracker.blink_history, event)
                    /\ eye_tracker'.last_blink_time = now'
                    /\ last_call'.result = Some(event)
               ELSE /\ eye_tracker'.blink_history = eye_tracker.blink_history
                    /\ eye_tracker'.last_blink_time
                         = eye_tracker.last_blink_time
                    /\ last_call'.result = None

C10_BlinkDurations ==
    \A i \in 1..Len(eye_tracker.blink_history) :
        /\ 5 <= eye_tracker.blink_history[i].duration
        /\ eye_tracker.blink_history[i].duration <= 50

C10_BlinkBand ==
    [][C10_BlinkStep /\ C10_BlinkDurations']_vars

\* a blink of 0.5 s, the longest of the band, has just been recorded
C10_Witness ==
    /\ last_call.op = "eye_update"
    /\ last_call.result # None
    /\ last_call.result[1].duration = 50
    /\ eye_tracker.blink_history = <<last_call.result[1]>>
    /\ eye_tracker.last_blink_time = now

----------------------------------------------------------------------------
(* The eye-strain score as a function of the values it reads               *)

\* blink rates around the tiers (5, 8, 12 a minute), in hundredths
BlinkRates ==
    {0, 200, 499, 500, 799, 800, 1199, 1200, 2000}

\* times since the last blink around the tiers (10 s, 15 s, 30 s)
BlinkAges ==
    {0, Seconds(10), Seconds(10) + 1, Seconds(15), Seconds(15) + 1,
     Seconds(30), Seconds(30) + 1}

\* mean eye aspect ratios around the tiers (0.22, 0.24), in thousandths
MeanEars ==
    {200, 219, 220, 239, 240, 250}

\* no baseline, and baselines of 5, 20 and 40 calibration blinks
Baselines ==
    {None, Some(250), Some(1000), Some(2000)}

\* calculate_eye_strain_score for two blink rates, the other values it reads
\* being the same (one pair of calls in a behaviour)
CalculateEyeStrainScore(low_rate, high_rate, time_since_blink, avg_ear, baseline) ==
    /\ last_call = NoCall
    /\ low_rate <= high_rate
    /\ last_call' = Call("calculate_eye_strain_score", "",
          Some([low_rate   |-> low_rate,
                high_rate  |-> high_rate,
                low_score  |-> StrainScore(low_rate, time_since_blink,
                                           avg_ear, 1, baseline),
                high_score |-> StrainScore(high_rate, time_since_blink,
                                           avg_ear, 1, baseline),
                unclamped  |-> RatePenalty(low_rate, baseline)
                                 + IdlePenalty(time_since_blink)
                                 + EarPenalty(avg_ear, 1)]))
    /\ UNCHANGED <<now, date, day_start, ticks, alert_system,
                   screen_time_tracker, eye_tracker, posture_analyzer>>

NextStrain ==
    \E low_rate \in BlinkRates, high_rate \in BlinkRates,
       time_since_blink \in BlinkAges, avg_ear \in MeanEars,
       baseline \in Baselines :
        CalculateEyeStrainScore(low_rate, high_rate, time_since_blink,
                                avg_ear, baseline)

SpecStrain ==
    Init /\ [][NextStrain]_vars

----------------------------------------------------------------------------
(* Properties of the eye tracker's scores                                  *)

\* the events of a sequence of BlinkEvents, or the timestamps of a sequence
\* of timestamps, that lie in the 60 s before now (its start included)
InWindow(timestamps) ==
    Cardinality({i \in 1..Len(timestamps) : timestamps[i] >= now - 6000})

HistoryTimestamps ==
    [i \in 1..Len(eye_tracker.blink_history) |->
        eye_tracker.blink_history[i].timestamp]

\* blinks a minute, in hundredths: the count when it is at least 2, else 0
RateOfCount(n) ==
    IF n >= 2 THEN 100 * n ELSE 0

\* C11 (as amended): get_current_blink_rate equals the number of BlinkEvents
\* retained in the blink history (the last 100 recorded) whose timestamp
\* lies in the trailing 60 s when that number is at least 2, and 0 when it
\* is 0 or 1.
C11_BlinkRate ==
    last_call.op = "get_current_blink_rate" =>
        /\ Len(eye_tracker.blink_history) <= 100
        /\ last_call.result = Some(RateOfCount(InWindow(HistoryTimestamps)))

\* a rate of 2 blinks a minute was returned with a third, older blink of
\* the history outside the window
C11_Witness ==
    /\ last_call.op = "get_current_blink_rate"
    /\ last_call.result = Some(200)
    /\ Len(eye_tracker.blink_history) = 3
    /\ eye_tracker.blink_history[1].timestamp < now - 6000

\* C11 (as stated): the rate equals the number of qualifying blinks in the
\* trailing 60 s, or 0 when there are fewer than 2.  While the tracker
\* calibrates, calibration_blinks holds the timestamp of every blink
\* recorded so far.
C11_AllBlinksCounted ==
    (last_call.op = "get_current_blink_rate" /\ eye_tracker.is_calibrating)
    => last_call.result
         = Some(RateOfCount(InWindow(eye_tracker.calibration_blinks)))

\* C12: with the time since the last blink, the mean EAR and the baseline
\* the same, the eye-strain score for the lower of two blink rates is at
\* least the score for the higher, and every score lies in [0, 100].
C12_StrainMonotone ==
    last_call.op = "calculate_eye_strain_score" =>
        /\ last_call.result[1].low_score >= last_call.result[1].high_score
        /\ 0 <= last_call.result[1].low_score
        /\ last_call.result[1].low_score <= 100
        /\ 0 <= last_call.result[1].high_score
        /\ last_call.result[1].high_score <= 100

\* every penalty tier is at its highest for the low rate (their sum is above
\* 100 and the score is 100), and the score for the high rate is lower
C12_Witness ==
    /\ last_call.op = "calculate_eye_strain_score"
    /\ last_call.result[1].unclamped = 105
    /\ last_call.result[1].low_score = 100
    /\ last_call.result[1].high_score < 100

----------------------------------------------------------------------------
(* Properties of the posture analyzer                                      *)

\* C13: calculate_posture_score returns a value in [0, 100] for every
\* combination of penalty tiers, those whose penalties sum to more than 100
\* included.
C13_PostureScoreRange ==
    calculate_posture_score(posture_analyzer) \in 0..100

\* The penalties sum to more than 100 after an update, and the score is 0.
C13_Witness ==
    /\ last_call.op = "posture_update"
    /\ PosturePenalties(posture_analyzer) > 100
    /\ calculate_posture_score(posture_analyzer) = 0

\* What PostureAnalyzer.update leaves of the bad-posture period: a good
\* status ends it, any other status starts it at this frame or continues the
\* one that was running.
C14_UpdateStep ==
    LET p == posture_analyzer
        q == posture_analyzer'
    IN  IF get_status(q) = "good"
        THEN /\ q.bad_posture_start_time = None
             /\ q.current_bad_posture_duration = 0
        ELSE /\ q.bad_posture_start_time =
                    IF p.bad_posture_start_time = None THEN Some(now')
                    ELSE p.bad_posture_start_time
             /\ q.current_bad_posture_duration =
                    now' - q.bad_posture_start_time[1]

\* What should_alert() returns in the state p at time t, the last operation
\* having been call.
C14_Threshold(p, t, call) ==
    /\ p.current_bad_posture_duration < Seconds(30)
        => ~should_alert(p)
    /\ should_alert(p)
        => /\ get_status(p) # "good"
           /\ p.bad_posture_start_time # None
           /\ t - p.bad_posture_start_time[1] >= Seconds(30)
    /\ call.op = "should_alert"
        => call.result = Some(should_alert(p))

\* C14: should_alert() is false whenever the current bad-posture duration is
\* under 30 s, even if the status is not good; it is true only when the
\* status has been other than good at every update for at least 30 s and
\* still is.
C14_ShouldAlert ==
    [][/\ last_call'.op = "posture_update" => C14_UpdateStep
       /\ C14_Threshold(posture_analyzer', now', last_call')]_vars

\* should_alert() has returned True, and the period started 30 s ago or
\* earlier.
C14_Witness ==
    /\ last_call.op = "should_alert"
    /\ last_call.result = Some(TRUE)
    /\ posture_analyzer.current_bad_posture_duration >= Seconds(30)

----------------------------------------------------------------------------
(* Properties of the health monitor                                        *)

\* C15: on a tick with presence false the monitor updates only the
\* ScreenTimeTracker: the eye tracker, the posture analyzer and the alert
\* system are as they were, no create_alert call is made, and the snapshot
\* returned has score 100, status good, empty eye and posture metrics and
\* is_user_present = false.
C15_AbsentTick ==
    [][last_call'.op = "process_frame" /\ last_call'.arg = "absent"
         => /\ eye_tracker' = eye_tracker
            /\ posture_analyzer' = posture_analyzer
            /\ alert_system' = alert_system
            /\ screen_time_tracker' =
                   screen_update(screen_time_tracker, FALSE, now', date')
            /\ \A i \in 1..Len(last_call'.result[1]) :
                   last_call'.result[1][i] # "create_alert"
            /\ LET state == last_call'.result[2]
               IN  /\ state.overall_score = 1000
                   /\ state.overall_status = "good"
                   /\ state.eye_metrics = <<>>
                   /\ state.posture_metrics = <<>>
                   /\ state.is_user_present = FALSE]_vars

\* An absent tick has closed the session of a user who has an unacknowledged
\* alert.
C15_Witness ==
    /\ last_call.op = "process_frame"
    /\ last_call.arg = "absent"
    /\ ~screen_time_tracker.is_user_present
    /\ Len(screen_time_tracker.sessions_today) > 0
    /\ Len(get_active_alerts(alert_system)) > 0

\* C20: every tick of the monitor calls AlertSystem.check_escalations
\* exactly once, and after all the create_alert calls of the tick.
C20_EscalationsOnce ==
    last_call.op = "process_frame"
        => LET calls == last_call.result[1]
           IN  /\ Cardinality({i \in 1..Len(calls) :
                                   calls[i] = "check_escalations"}) = 1
               /\ calls[Len(calls)] = "check_escalations"

----------------------------------------------------------------------------
(* Properties of the sessions                                              *)

\* C16: after any sequence of update and record_break_taken calls at most
\* one WorkSession is open: the only session without an end_time is
\* current_session, and every session of sessions_today has its end_time
\* set.
C16_OneOpenSession ==
    /\ \A i \in 1..Len(screen_time_tracker.sessions_today) :
           screen_time_tracker.sessions_today[i].end_time # None
    /\ screen_time_tracker.current_session # None
           => screen_time_tracker.current_session[1].end_time = None

\* A session is open (a break was taken in it) after another was closed.
C16_Witness ==
    /\ screen_time_tracker.current_session # None
    /\ screen_time_tracker.current_session[1].breaks_taken > 0
    /\ Len(screen_time_tracker.sessions_today) > 0

----------------------------------------------------------------------------
(* Properties of the trackers' inputs                                      *)

\* C17: an update carrying an invalid value (a negative eye aspect ratio, a
\* negative distance, an angle outside [-180, 180]) is rejected or clamped:
\* the history buffers of the trackers never hold an out-of-range value.
C17_HistoriesInRange ==
    /\ \A i \in 1..Len(eye_tracker.ear_history) :
           eye_tracker.ear_history[i] >= 0
    /\ \A i \in 1..Len(posture_analyzer.distance_history) :
           posture_analyzer.distance_history[i] >= 0
    /\ \A i \in 1..Len(posture_analyzer.pitch_history) :
           /\ posture_analyzer.pitch_history[i] \in -180..180
           /\ posture_analyzer.yaw_history[i] \in -180..180
           /\ posture_analyzer.roll_history[i] \in -180..180

----------------------------------------------------------------------------
(* Properties of the overall score (in tenths)                             *)

\* C18: for every eye_strain_score and posture_score in [0, 100] the
\* overall score is 0.5 * (100 - eye_strain_score) + 0.5 * posture_score
\* clamped to [0, 100], the status is excellent from 85, good from 70, fair
\* from 50 and needs_attention below, and the score lies in [0, 100].
C18_OverallScore ==
    last_call.op = "calculate_overall_score"
        => LET eye_strain_score == last_call.result[1]
               posture_score    == last_call.result[2]
               score            == last_call.result[3]
               status           == last_call.result[4]
               weighted == 5 * (100 - eye_strain_score) + 5 * posture_score
           IN  /\ score = (IF weighted < 0 THEN 0
                           ELSE IF weighted > 1000 THEN 1000 ELSE weighted)
               /\ score \in 0..1000
               /\ status = "excellent" <=> score >= 850
               /\ status = "good" <=> score >= 700 /\ score < 850
               /\ status = "fair" <=> score >= 500 /\ score < 700
               /\ status = "needs_attention" <=> score < 500

\* The score is a half under 85: eye strain 31 and posture 100 give 84.5,
\* which is good.
C18_Witness ==
    /\ last_call.op = "calculate_overall_score"
    /\ last_call.result = <<31, 100, 845, "good">>

----------------------------------------------------------------------------
(* Properties of the queries                                               *)

\* C19: get_alert_summary, get_active_alerts, get_statistics,
\* get_daily_summary and get_break_recommendation leave every field of the
\* alert system and of the trackers as it was.
C19_Queries ==
    [][last_call'.op \in {"get_alert_summary", "get_active_alerts",
                          "get_statistics", "get_daily_summary",
                          "get_break_recommendation"}
         => /\ alert_system' = alert_system
            /\ screen_time_tracker' = screen_time_tracker
            /\ eye_tracker' = eye_tracker
            /\ posture_analyzer' = posture_analyzer]_vars

\* get_alert_summary has been called with alerts in the history, after the
\* time of a pause had passed and before anything resumed the alerts.
C19_Witness ==
    /\ last_call.op = "get_alert_summary"
    /\ alert_system.is_paused
    /\ alert_system.pause_until # None
    /\ now >= alert_system.pause_until[1]
    /\ last_call.result[1].pause_remaining = 0
    /\ Len(alert_system.alert_history) > 0

----------------------------------------------------------------------------
(* Properties of the calibration                                           *)

\* C21: whenever a tracker scores without a baseline (its calibration is
\* running, or ended with too few samples), the HealthState returned by the
\* tick reports is_calibrating = true.
C21_CalibratingReported ==
    (/\ last_call.op = "process_frame"
     /\ last_call.arg = "present"
     /\ \/ eye_tracker.baseline_blink_rate = None
        \/ posture_analyzer.baseline_pitch = None)
        => last_call.result[2].is_calibrating

----------------------------------------------------------------------------
(* Properties of the escalations in the tick loop                          *)

\* C22: with the user present, should_alert() true, the alerts not paused
\* and no alert acknowledged, an armed posture escalation reaches its time
\* and fires: the tick at which the armed time has come raises the posture
\* escalation count.
C22_PostureEscalates ==
    [][(/\ last_call'.op = "process_frame"
        /\ last_call'.arg = "present"
        /\ should_alert(posture_analyzer')
        /\ ~alert_system.is_paused
        /\ Len(Unacknowledged(alert_system, "posture")) > 0
        /\ "posture" \in DOMAIN alert_system.pending_escalations
        /\ now' >= alert_system.pending_escalations["posture"])
         => alert_system'.escalation_counts["posture"]
                > alert_system.escalation_counts["posture"]]_vars

----------------------------------------------------------------------------
(* Properties of rejected alerts                                           *)

\* The fields of the engine other than the pause
C23_Kept(e) ==
    [e EXCEPT !.is_paused = FALSE, !.pause_until = None]

\* C23 (amended): a create_alert call rejected by the cooldown or by an
\* unexpired pause invokes no observer and leaves the active alerts, the
\* history, the last-sent times, the escalation counts and timers and the
\* daily counter as they were, so that the moment from which the type can be
\* sent is not postponed; the one thing it may change is the pause, which it
\* clears when the pause had expired and the cooldown rejected the call.
C23_RejectedAlert ==
    [][(last_call'.op = "create_alert" /\ last_call'.result = None)
         => /\ last_call'.notified = <<>>
            /\ C23_Kept(alert_system') = C23_Kept(alert_system)
            /\ IF alert_system.is_paused /\ PauseExpired(alert_system, now)
               THEN /\ ~alert_system'.is_paused
                    /\ alert_system'.pause_until = None
               ELSE alert_system' = alert_system
            /\ \A d \in AlertSteps :
                  can_send_alert(alert_system', last_call'.arg, now + d).result
                    = can_send_alert(alert_system, last_call'.arg,
                                     now + d).result]_vars

\* A call has been rejected by the cooldown, and another by an unexpired
\* pause, with an alert of the type in the history.
C23_Witness ==
    /\ last_call.op = "create_alert"
    /\ last_call.result = None
    /\ alert_system.is_paused
    /\ ~PauseExpired(alert_system, now)
    /\ Len(alert_system.alert_history) > 0
    /\ ~CooldownElapsed(alert_system, last_call.arg, now)

\* C23 as stated: a rejected create_alert call changes nothing in the
\* engine and invokes no observer.
C23_NothingChanges ==
    [][(last_call'.op = "create_alert" /\ last_call'.result = None)
         => /\ last_call'.notified = <<>>
            /\ alert_system' = alert_system]_vars

----------------------------------------------------------------------------
(* Properties of the escalation counts                                     *)

\* C24: the escalation count of a type never decreases except through
\* acknowledge_alert or acknowledge_all: create_alert, check_escalations,
\* pause_alerts, resume_alerts and the passage of time leave it as it was or
\* increase it.
C24_CountsKept ==
    [][\/ \A x \in AlertType :
             alert_system'.escalation_counts[x]
                 >= alert_system.escalation_counts[x]
       \/ /\ last_call'.op = "none"
          /\ now' = now
          /\ \/ alert_system' = acknowledge_all(alert_system)
             \/ \E i \in 1..Len(alert_system.active_alerts) :
                   alert_system' =
                       acknowledge_alert(alert_system,
                                         alert_system.active_alerts[i])]_vars

\* The posture count stands at 2 with three alerts unacknowledged and the
\* alerts not paused.
C24_Witness ==
    /\ alert_system.escalation_counts["posture"] = 2
    /\ ~alert_system.is_paused
    /\ Len(get_active_alerts(alert_system)) = 3
    /\ now > Epoch + Seconds(120)

\* C25: create_alert arms an escalation for the alert's type, at creation
\* time + 60 s, exactly when the severity is warning or critical and the
\* type's escalation count is below 3 (an info alert arms none);
\* every escalation count, and every escalation_level stamped on an alert,
\* stays within 0..3.
C25_Arming ==
    [][/\ (last_call'.op = "create_alert" /\ last_call'.result # None)
          => LET alert == last_call'.result[1]
             IN  IF /\ alert.severity \in {"warning", "critical"}
                    /\ alert_system.escalation_counts[alert.alert_type]
                           < 3
                 THEN /\ alert.alert_type
                            \in DOMAIN alert_system'.pending_escalations
                      /\ alert_system'.pending_escalations[alert.alert_type]
                            = alert.timestamp + Seconds(60)
                 ELSE alert_system'.pending_escalations
                            = alert_system.pending_escalations
       /\ \A x \in AlertType :
             alert_system'.escalation_counts[x] \in 0..3
       /\ \A i \in 1..Len(alert_system'.alert_history) :
             alert_system'.alert_history[i].escalation_level \in 0..3]_vars

\* A warning has been created at escalation level 3 and has armed nothing.
C25_Witness ==
    /\ last_call.op = "create_alert"
    /\ last_call.result # None
    /\ last_call.result[1].severity = "warning"
    /\ last_call.result[1].escalation_level = 3
    /\ "posture" \notin DOMAIN alert_system.pending_escalations

\* C26: the escalation_level of an alert is the escalation count of its
\* type at the moment it is created, and never changes afterwards; when the
\* count goes up, the severity and the escalation_level of the existing
\* alerts are as they were and no observer is notified: the new count shows
\* only on the next alert created.
C26_LevelStamped ==
    [][/\ (last_call'.op = "create_alert" /\ last_call'.result # None)
          => last_call'.result[1].escalation_level =
                alert_system.escalation_counts[
                    last_call'.result[1].alert_type]
       /\ \A i \in 1..Len(alert_system.alert_history) :
             /\ i <= Len(alert_system'.alert_history)
             /\ alert_system'.alert_history[i].escalation_level
                   = alert_system.alert_history[i].escalation_level
             /\ alert_system'.alert_history[i].severity
                   = alert_system.alert_history[i].severity
       /\ (\E x \in AlertType :
               alert_system'.escalation_counts[x]
                   > alert_system.escalation_counts[x])
          => /\ last_call'.notified = <<>>
             /\ Len(alert_system'.alert_history)
                   = Len(alert_system.alert_history)]_vars

\* The count has gone up to 2 after the second alert, which keeps level 1.
C26_Witness ==
    /\ Len(alert_system.alert_history) = 2
    /\ alert_system.alert_history[1].escalation_level = 0
    /\ alert_system.alert_history[2].escalation_level = 1
    /\ alert_system.escalation_counts["posture"] = 2

\* C27: check_escalations removes every armed escalation whose time has
\* passed, whether or not an unacknowledged alert of the type is active (the
\* count is as it was when none is), and leaves the armed escalations whose
\* time has not passed, and their counts, untouched.
C27_TimersCleared ==
    [][(/\ last_call'.op = "none"
        /\ now' = now
        /\ alert_system' = check_escalations(alert_system, now))
         => \A x \in AlertType :
              IF /\ x \in DOMAIN alert_system.pending_escalations
                 /\ now >= alert_system.pending_escalations[x]
              THEN /\ x \notin DOMAIN alert_system'.pending_escalations
                   /\ Len(Unacknowledged(alert_system, x)) = 0
                        => alert_system'.escalation_counts[x]
                             = alert_system.escalation_counts[x]
              ELSE /\ alert_system'.escalation_counts[x]
                        = alert_system.escalation_counts[x]
                   /\ x \in DOMAIN alert_system.pending_escalations
                        <=> x \in DOMAIN alert_system'.pending_escalations
                   /\ x \in DOMAIN alert_system.pending_escalations
                        => alert_system'.pending_escalations[x]
                             = alert_system.pending_escalations[x]]_vars

\* An escalation has fired and its timer is gone, while an alert created
\* since is unacknowledged and has armed nothing.
C27_Witness ==
    /\ last_call.op = "none"
    /\ alert_system.escalation_counts["posture"] = 1
    /\ "posture" \notin DOMAIN alert_system.pending_escalations
    /\ Len(Unacknowledged(alert_system, "posture")) = 2
    /\ alert_system.alert_history[2].severity = "info"

----------------------------------------------------------------------------
(* Properties of the tick loop during calibration and after an absence     *)

\* C28: a tick creates no posture alert while the posture analyzer is in its
\* calibration window, and no eye-strain alert while the eye tracker is in
\* its calibration window.
C28_NoAlertCalibrating ==
    [][last_call'.op = "process_frame"
         => \A i \in (Len(alert_system.alert_history) + 1)
                       ..Len(alert_system'.alert_history) :
              LET alert == alert_system'.alert_history[i]
              IN  /\ alert.alert_type = "posture"
                       => ~posture_analyzer'.is_calibrating
                  /\ alert.alert_type = "eye_strain"
                       => ~eye_tracker'.is_calibrating]_vars

\* C29: on the first present tick after an absence, the time the user was
\* away (what the screen-time tracker measures as idle time: from the last
\* tick with the user present to the last absent tick) is counted neither
\* into the bad-posture duration nor into the time since the last blink.
C29_AbsenceNotCounted ==
    [][(/\ last_call'.op = "process_frame"
        /\ last_call'.arg = "present"
        /\ last_call.op = "process_frame"
        /\ last_call.arg = "absent")
         => LET idle_time ==
                    now - screen_time_tracker.last_activity_time
                state == last_call'.result[2]
            IN  /\ posture_analyzer.bad_posture_start_time # None
                     => posture_analyzer'.current_bad_posture_duration
                          <= now' - idle_time
                               - posture_analyzer.bad_posture_start_time[1]
                /\ state.eye_metrics[1].time_since_last_blink
                     <= now' - idle_time - eye_tracker.last_blink_time]_vars

\* C30: an update at which the penalties of the smoothed pitch, roll, yaw
\* and distance alone leave a score of at least 70 returns the analyzer to
\* good: the timer is cleared and the bad-posture duration is 0, however
\* long the episode before has lasted.
C30_ReturnsToGood ==
    [][(/\ last_call'.op = "posture_update"
        /\ 100 - PosturePenalties(
                    [posture_analyzer' EXCEPT
                        !.current_bad_posture_duration = 0]) >= 70)
         => /\ posture_analyzer'.bad_posture_start_time = None
            /\ posture_analyzer'.current_bad_posture_duration = 0]_vars

----------------------------------------------------------------------------
(* Properties of the breaks and the sessions                               *)

\* C31: the first present tick after an absence (no session was open) has
\* no tier overdue, the session it opens being 0 s old: no break is
\* recommended after it and the tick creates no break_needed alert.
C31_NoBreakAfterAbsence ==
    [][(/\ last_call'.op = "process_frame"
        /\ last_call'.arg = "present"
        /\ screen_time_tracker.current_session = None
        /\ ~screen_time_tracker.is_user_present)
         => /\ get_break_recommendation(screen_time_tracker', now') = None
            /\ \A i \in (Len(alert_system.alert_history) + 1)
                          ..Len(alert_system'.alert_history) :
                  alert_system'.alert_history[i].alert_type
                      # "break_needed"]_vars

\* C32: record_break_taken sets the last-break time of its tier and of the
\* tiers below to now, and leaves those of the tiers above as they were:
\* long sets long, short and micro; short sets short and micro; micro sets
\* micro only.
C32_TierReset ==
    [][last_call'.op = "record_break_taken"
         => LET break_type == last_call'.arg
            IN  /\ screen_time_tracker'.last_micro_break = now
                /\ screen_time_tracker'.last_short_break =
                       IF break_type \in {"short", "long"} THEN now
                       ELSE screen_time_tracker.last_short_break
                /\ screen_time_tracker'.last_long_break =
                       IF break_type = "long" THEN now
                       ELSE screen_time_tracker.last_long_break]_vars

\* A long, a short and a micro break have been recorded, in that order and
\* at three different times.
C32_Witness ==
    LET h == screen_time_tracker.break_compliance_history
    IN  /\ Len(h) = 3
        /\ h[1].type = "long" /\ h[2].type = "short" /\ h[3].type = "micro"
        /\ screen_time_tracker.last_long_break = h[1].timestamp
        /\ screen_time_tracker.last_short_break = h[2].timestamp
        /\ screen_time_tracker.last_micro_break = h[3].timestamp
        /\ h[1].timestamp < h[2].timestamp
        /\ h[2].timestamp < h[3].timestamp

\* C40: after any sequence of record_break_taken calls,
\* last_long_break <= last_short_break <= last_micro_break.
C40_TiersOrdered ==
    Len(screen_time_tracker.break_compliance_history) > 0
        => /\ screen_time_tracker.last_long_break
                  <= screen_time_tracker.last_short_break
           /\ screen_time_tracker.last_short_break
                  <= screen_time_tracker.last_micro_break

\* C33: with a session open, an absent tick whose idle time (now minus the
\* last present tick) is below 30 s leaves the tracker as it was; the first
\* absent tick with idle time >= 30 s closes the session (end_time set,
\* appended to sessions_today, its duration added to the daily total),
\* appends one idle-period record and sets is_user_present false; with no
\* session open an absent tick closes nothing and appends no record.
C33_IdleClose ==
    [][(last_call'.op = "process_frame" /\ last_call'.arg = "absent")
         => LET s == screen_time_tracker
                idle_time == now' - s.last_activity_time
            IN  IF s.current_session = None
                THEN /\ screen_time_tracker'.current_session = None
                     /\ screen_time_tracker'.sessions_today = s.sessions_today
                     /\ screen_time_tracker'.idle_periods = s.idle_periods
                     /\ screen_time_tracker'.total_screen_time_today
                            = s.total_screen_time_today
                     /\ ~screen_time_tracker'.is_user_present
                ELSE IF idle_time < Seconds(30)
                THEN /\ screen_time_tracker'.current_session
                            = s.current_session
                     /\ screen_time_tracker'.is_user_present
                     /\ screen_time_tracker'.sessions_today = s.sessions_today
                     /\ screen_time_tracker'.idle_periods = s.idle_periods
                ELSE /\ screen_time_tracker'.current_session = None
                     /\ ~screen_time_tracker'.is_user_present
                     /\ screen_time_tracker'.sessions_today =
                            Append(s.sessions_today,
                                   [s.current_session[1] EXCEPT
                                       !.end_time = Some(now')])
                     /\ screen_time_tracker'.total_screen_time_today =
                            s.total_screen_time_today
                                + (now' - s.current_session[1].start_time)
                     /\ screen_time_tracker'.idle_periods =
                            Append(s.idle_periods,
                                   [start |-> s.last_activity_time,
                                    duration |-> idle_time])]_vars

\* A session that stayed open over an absent tick 3 s after the last present
\* one was closed by the next absent tick, 34 s after it.
C33_Witness ==
    /\ last_call.op = "process_frame"
    /\ last_call.arg = "absent"
    /\ screen_time_tracker.current_session = None
    /\ Len(screen_time_tracker.sessions_today) = 1
    /\ Len(screen_time_tracker.idle_periods) = 1
    /\ screen_time_tracker.idle_periods[1].duration = Seconds(34)
    /\ screen_time_tracker.total_screen_time_today = Seconds(34)

\* C39: a session is open (current_session is set) iff is_user_present is
\* true; an open session ends only on an update that finds the idle
\* threshold reached (never in _start_session, which finds no session).
C39_OpenIffPresent ==
    [][/\ screen_time_tracker'.current_session # None
            <=> screen_time_tracker'.is_user_present
       /\ (/\ screen_time_tracker.current_session # None
           /\ IF screen_time_tracker'.current_session = None THEN TRUE
              ELSE screen_time_tracker'.current_session[1].start_time
                     # screen_time_tracker.current_session[1].start_time)
          => /\ screen_time_tracker'.current_session = None
             /\ ~screen_time_tracker'.is_user_present
             /\ now' - screen_time_tracker.last_activity_time
                    >= IDLE_THRESHOLD]_vars

\* The user is back, in a second session, after the first was closed by the
\* idle threshold.
C39_Witness ==
    /\ screen_time_tracker.is_user_present
    /\ screen_time_tracker.current_session # None
    /\ Len(screen_time_tracker.sessions_today) = 1
    /\ Len(screen_time_tracker.idle_periods) = 1
    /\ screen_time_tracker.current_session[1].start_time
           > screen_time_tracker.sessions_today[1].end_time[1]

----------------------------------------------------------------------------
(* Properties of the bad-posture timer                                     *)

\* C34: on an update whose status is not good the timer starts at the
\* current time if none is running, and the duration reported is now minus
\* the start of the timer; on the update whose status is good again the
\* bad-posture time reported so far is added once to
\* total_bad_posture_time, and the timer and the duration are reset.
\* total_bad_posture_time never decreases.
C34_BadPostureTimer ==
    [][last_call'.op = "posture_update"
         => LET p == posture_analyzer
                q == posture_analyzer'
                status == get_status(
                    [q EXCEPT !.current_bad_posture_duration =
                                  p.current_bad_posture_duration])
            IN  /\ q.total_bad_posture_time >= p.total_bad_posture_time
                /\ IF status # "good"
                   THEN /\ q.bad_posture_start_time =
                              IF p.bad_posture_start_time = None
                              THEN Some(now')
                              ELSE p.bad_posture_start_time
                        /\ q.current_bad_posture_duration =
                              now' - q.bad_posture_start_time[1]
                        /\ q.total_bad_posture_time
                              = p.total_bad_posture_time
                   ELSE /\ q.bad_posture_start_time = None
                        /\ q.current_bad_posture_duration = 0
                        /\ q.total_bad_posture_time =
                              p.total_bad_posture_time
                                  + p.current_bad_posture_duration]_vars

\* A period of bad posture has ended: its time is in the total and the timer
\* is not running.
C34_Witness ==
    /\ last_call.op = "posture_update"
    /\ posture_analyzer.bad_posture_start_time = None
    /\ posture_analyzer.current_bad_posture_duration = 0
    /\ posture_analyzer.total_bad_posture_time > 0

----------------------------------------------------------------------------
(* Properties of the alerts of a tick                                      *)

\* The alert a present tick creates for alert_type when wanted, the engine
\* being e before the tick: one alert if the type's cooldown has passed and
\* the alerts are not paused, with the type's escalation count as its level.
C35_Created(e, wanted, alert_type, severity, t) ==
    IF wanted /\ can_send_alert(e, alert_type, t).result
    THEN <<NewAlert(alert_type, severity, t, e.escalation_counts[alert_type])>>
    ELSE <<>>

\* C35: a present tick creates at most one eye_strain alert (critical or
\* warning, as the eye status is), then a posture alert if should_alert()
\* holds, then a break_needed alert if a break is recommended; each is
\* created iff its own type's cooldown has passed and the alerts are not
\* paused, whatever the tick has created before it.
C35_AlertsOfTick ==
    [][(last_call'.op = "process_frame" /\ last_call'.arg = "present")
         => LET e == alert_system
                eye_status == get_health_status(eye_tracker', now')
                posture_status == get_status(posture_analyzer')
                break_rec ==
                    get_break_recommendation(screen_time_tracker', now')
            IN  alert_system'.alert_history =
                    e.alert_history
                    \o C35_Created(e, eye_status # "healthy", "eye_strain",
                                   eye_status, now')
                    \o C35_Created(e, should_alert(posture_analyzer'),
                                   "posture",
                                   IF posture_status = "poor"
                                   THEN "critical" ELSE "warning", now')
                    \o C35_Created(e, break_rec # None, "break_needed",
                                   IF break_rec # None
                                      /\ break_rec[1].break_type = "long"
                                   THEN "warning" ELSE "info", now')]_vars

\* Three alerts were created on one tick: eye strain, posture and break.
C35_Witness ==
    LET h == alert_system.alert_history
        n == Len(h)
    IN  /\ last_call.op = "process_frame"
        /\ n >= 3
        /\ h[n - 2].alert_type = "eye_strain"
        /\ h[n - 1].alert_type = "posture"
        /\ h[n].alert_type = "break_needed"
        /\ h[n - 2].timestamp = now
        /\ h[n - 1].timestamp = now
        /\ h[n].timestamp = now

----------------------------------------------------------------------------
(* Properties of the eye tracker's calibration                             *)

\* C36: is_calibrating turns false on the first update 120 s or more after
\* construction and stays false; baseline_blink_rate is assigned at that
\* update only, to half the number of blinks buffered (blinks a minute, in
\* hundredths: 50 each) iff they are at least 5.
C36_CalibratesOnce ==
    [][last_call'.op = "eye_update"
         => LET e == eye_tracker
                buffered == Len(e.calibration_blinks)
                              + (IF last_call'.result # None THEN 1 ELSE 0)
            IN  IF ~e.is_calibrating
                THEN /\ ~eye_tracker'.is_calibrating
                     /\ eye_tracker'.baseline_blink_rate
                            = e.baseline_blink_rate
                ELSE IF now' - e.calibration_start_time < Seconds(120)
                THEN /\ eye_tracker'.is_calibrating
                     /\ eye_tracker'.baseline_blink_rate = None
                ELSE /\ ~eye_tracker'.is_calibrating
                     /\ eye_tracker'.baseline_blink_rate =
                            IF buffered >= 5 THEN Some(50 * buffered)
                            ELSE None]_vars

\* The calibration has ended with five blinks buffered: 2.5 blinks a minute.
C36_Witness ==
    /\ ~eye_tracker.is_calibrating
    /\ eye_tracker.baseline_blink_rate = Some(250)
    /\ Len(eye_tracker.blink_history) > 5

\* C37: every blink counted into baseline_blink_rate has its timestamp in
\* the first 120 s after the eye tracker's construction: when the
\* calibration ends, no buffered blink is later than that.
C37_BlinksInWindow ==
    [][(/\ last_call'.op = "eye_update"
        /\ eye_tracker.is_calibrating
        /\ ~eye_tracker'.is_calibrating
        /\ last_call'.result # None)
         => last_call'.result[1].timestamp
                <= eye_tracker.calibration_start_time + Seconds(120)]_vars

----------------------------------------------------------------------------
(* Properties of the alert history                                         *)

\* C38: every alert of the active set is also in the alert history, which
\* holds 100 alerts, so the active set never holds more than 100.
C38_ActiveInHistory ==
    /\ Len(alert_system.active_alerts) <= ALERT_HISTORY_MAXLEN
    /\ \A i \in 1..Len(alert_system.active_alerts) :
          \E j \in 1..Len(alert_system.alert_history) :
              alert_system.alert_history[j] = alert_system.active_alerts[i]

============================================================================
